---------------------------- MODULE Spec2Model ----------------------------
(***************************************************************************)
(* Model of the tcex threat-intelligence transform engine:                 *)
(*   - the pydantic configuration models of                                *)
(*     tcex/api/tc/ti_transform/model/transform_model.py                   *)
(*     (specification SpecConfig), and                                     *)
(*   - the batch / v3 collection processor TiTransforms of                 *)
(*     tcex/api/tc/ti_transform/ti_transform.py (specification Spec).      *)
(*                                                                         *)
(* Python values are modelled as follows.  An optional value is a sequence *)
(* of length at most one: None is << >> and a value v is << v >>.  A dict  *)
(* is a sequence of << key, value >> pairs with distinct keys, in          *)
(* insertion order.  A string whose letters matter (a map key, a path) is  *)
(* a sequence of characters or tokens.                                     *)
(***************************************************************************)
EXTENDS Integers, Sequences, FiniteSets, TLC

VARIABLES
    \* ---- configuration models (SpecConfig)
    cls,                    \* the model class last constructed
    doc,                    \* the configuration document handed to it
    model,                  \* the outcome: [ok, errors, values]
    \* ---- collection processor (Spec)
    ti_dicts,               \* TiTransforms.ti_dicts: the raw records
    raise_exceptions,       \* TiTransforms.raise_exceptions
    seperate_batch_associations,
    pc,                     \* "idle", "batch", "v3_api", "done_batch", "done_v3_api", "raised"
    index,                  \* position of the loop over transformed_collection
    transformed_collection, \* the TiTransform objects built by process()
    batch,                  \* the local dict `batch` of TiTransforms.batch
    v3_data,                \* the local dict `v3_data` of TiTransforms.v3_api
    exc,                    \* the exception that reached the caller, or None
    log,                    \* the events sent to self.log
    evaluated,              \* positions whose t.batch / t.v3_api was invoked
    previous,               \* the result of the extraction before, once it is called again
    \* ---- one record's builder (SpecItem)
    ti,                     \* the TiTransform of the record
    stage,                  \* "idle", "building", "raised", "batch", "v3_api"
    calls,                  \* the helper calls made so far
    ti_exc,                 \* the exception a helper call raised
    result,                 \* the data TiTransform.batch / v3_api returned
    \* ---- ObjectCollectionABC.iterate (SpecIterate)
    it_server,              \* the responses of the API, by url
    it_conf,                \* type_, params and TQL of the collection
    it_pc,                  \* "idle", "request", "yield", "done", "raised"
    it_url,                 \* the local `url`
    it_params,              \* the local `params`
    it_requests,            \* the requests sent: [url, params]
    it_yielded,             \* the items handed to the consumer
    it_data,                \* what is left of `data` of the current page
    \* ---- ApiService.run_service (SpecService)
    svc_message,            \* the RunService message
    svc_pc,                 \* position of the thread that runs run_service
    svc_token,              \* the API token of the thread is registered
    svc_event,              \* the threading.Event of the request is set
    svc_redis,              \* the fields of the request key written to Redis
    svc_handler,            \* position of the response-handler thread
    svc_published,          \* the messages published to the client topic
    svc_metrics,            \* ApiService._metrics
    \* ---- PlaybookCreate (SpecPlaybook)
    pb_output_variables,    \* PlaybookCreate.output_variables
    pb_store,               \* the records created in the key-value store
    pb_call,                \* the write method called and its arguments
    pb_pc,                  \* "idle", "returned", "raised"
    pb_exc                  \* the exception the call raised

cfgvars == <<cls, doc, model>>
runvars == <<ti_dicts, raise_exceptions, seperate_batch_associations, pc, index,
             transformed_collection, batch, v3_data, exc, log, evaluated, previous>>
itemvars == <<ti, stage, calls, ti_exc, result>>
vars == <<cls, doc, model, ti_dicts, raise_exceptions,
          seperate_batch_associations, pc, index, transformed_collection,
          batch, v3_data, exc, log, evaluated, previous,
          ti, stage, calls, ti_exc, result,
          it_server, it_conf, it_pc, it_url, it_params, it_requests, it_yielded,
          it_data,
          svc_message, svc_pc, svc_token, svc_event, svc_redis, svc_handler,
          svc_published, svc_metrics,
          pb_output_variables, pb_store, pb_call, pb_pc, pb_exc>>
itervars == <<it_server, it_conf, it_pc, it_url, it_params, it_requests, it_yielded,
              it_data>>
svcvars == <<svc_message, svc_pc, svc_token, svc_event, svc_redis, svc_handler,
             svc_published, svc_metrics>>
pbvars == <<pb_output_variables, pb_store, pb_call, pb_pc, pb_exc>>
extvars == <<itervars, svcvars, pbvars>>

-----------------------------------------------------------------------------
(* Bounds of the model *)

MaxKeyLen == 2
MaxMapLen == 2
MaxPathLen == 4
MaxRecords == 3
MaxCalls == 2
MaxRerunRecords == 2
MaxPages == 2
MaxPageItems == 2
MaxOutputVariables == 2

-----------------------------------------------------------------------------
(* Python values *)

None == << >>
Some(v) == << v >>

Range(s) == { s[i] : i \in 1..Len(s) }

SeqsUpTo(S, n) == UNION { [1..k -> S] : k \in 0..n }

\* dict: sequence of <<key, value>> pairs, keys distinct, insertion order
DictKeys(d) == [ i \in 1..Len(d) |-> d[i][1] ]
DictHas(d, k) == \E i \in 1..Len(d) : d[i][1] = k
DictPos(d, k) == CHOOSE i \in 1..Len(d) : d[i][1] = k
DictGet(d, k) == d[DictPos(d, k)][2]
\* d[k] = v: an existing key keeps its position, a new key goes last
DictSet(d, k, v) ==
    IF DictHas(d, k)
    THEN [ i \in 1..Len(d) |-> IF d[i][1] = k THEN <<k, v>> ELSE d[i] ]
    ELSE Append(d, <<k, v>>)
DictDel(d, k) == SelectSeq(d, LAMBDA p : p[1] # k)


-----------------------------------------------------------------------------
(* Configuration documents *)

\* letters of map keys; str.lower() maps "A" to "a"
CaseChars == {"a", "A"}
LowerChar(c) == IF c = "A" THEN "a" ELSE c
lower(key) == [ i \in 1..Len(key) |-> LowerChar(key[i]) ]

Keys == SeqsUpTo(CaseChars, MaxKeyLen) \ { << >> }

\* a dict literal of the configuration: distinct keys, the i-th value is i
MapOf(ks) == [ i \in 1..Len(ks) |-> <<ks[i], i>> ]
Injective(ks) == \A i, j \in 1..Len(ks) : ks[i] = ks[j] => i = j
MapDocs == { MapOf(ks) : ks \in { q \in SeqsUpTo(Keys, MaxMapLen) : Injective(q) } }

OptMapDocs == {None} \cup { Some(m) : m \in MapDocs }
SimpleMapDocs == {None, Some(<< >>), Some(MapOf(<< <<"A">> >>))}
\* method / for_each: a callable or a PredefinedFunctionModel
MethodDocs == {None, Some("Callable"), Some("PredefinedFunctionModel")}

TransformDocs ==
    [filter_map : OptMapDocs, static_map : SimpleMapDocs,
     method : MethodDocs, for_each : MethodDocs]
    \cup
    [filter_map : SimpleMapDocs, static_map : OptMapDocs,
     method : MethodDocs, for_each : MethodDocs]

\* tokens of a path expression: identifier, wildcard, dot, index
PathTokens == {"a", "*", ".", "[0]"}
Paths == SeqsUpTo(PathTokens, MaxPathLen)
DefaultDocs == {None, Some(""), Some("d")}
PathDocs == [default : DefaultDocs, path : {None} \cup { Some(p) : p \in Paths }]

\* the `transform` value of a MetadataTransformModel document: absent, a
\* single rule (made a list by _always_array) or a list of rules
RuleDocs ==
    { [filter_map |-> None, static_map |-> None, method |-> None, for_each |-> None],
      [filter_map |-> None, static_map |-> Some(MapOf(<< <<"A">> >>)),
       method |-> None, for_each |-> None],
      [filter_map |-> None, static_map |-> None,
       method |-> Some("Callable"), for_each |-> None] }
TransformListDocs ==
    {None} \cup { Some([is_list |-> FALSE, item |-> r]) : r \in RuleDocs }
           \cup { Some([is_list |-> TRUE, items |-> <<r>>]) : r \in RuleDocs }
SmallPathDocs ==
    [default : DefaultDocs, path : {None, Some(<< >>), Some(<<"a">>), Some(<<"a", ".">>)}]
MetadataDocs ==
    { [default |-> p.default, path |-> p.path, transform |-> t] :
        p \in SmallPathDocs, t \in TransformListDocs }

\* the field transforms an IndicatorTransformModel document may carry
FieldDocs ==
    { [default |-> None, path |-> None, transform |-> None],
      [default |-> Some(""), path |-> None, transform |-> None],
      [default |-> Some("d"), path |-> None, transform |-> None],
      [default |-> None, path |-> Some(<<"a">>), transform |-> None] }
OptFieldDocs == {None} \cup { Some(f) : f \in FieldDocs }
IndicatorDocs ==
    [type : OptFieldDocs, value1 : OptFieldDocs, value2 : OptFieldDocs,
     value3 : OptFieldDocs]

-----------------------------------------------------------------------------
(* TransformModel *)

\* bool(v) of an optional dict / an optional str / an optional object
TruthyMap(v) == v # None /\ Len(v[1]) > 0
TruthyStr(v) == v # None /\ v[1] # ""
TruthySeq(v) == v # None /\ Len(v[1]) > 0
TruthyObj(v) == v # None

RECURSIVE LowerItems(_, _)
LowerItems(d, n) ==
    IF n = 0 THEN << >>
    ELSE DictSet(LowerItems(d, n - 1), lower(d[n][1]), d[n][2])

lower_map_keys_keep_case(v) == v

\* TransformModel._lower_map_keys
lower_map_keys(v) ==
    IF v # None THEN Some(LowerItems(v[1], Len(v[1]))) ELSE v

CountNone(fields) == Cardinality({ i \in 1..Len(fields) : fields[i] = None })

\* TransformModel._required_transform: the errors it raises
required_transform(v) ==
    IF ~( TruthyMap(v.filter_map) \/ TruthyMap(v.static_map)
          \/ TruthyObj(v.method) \/ TruthyObj(v.for_each) )
    THEN {"Either map or method must be defined."}
    ELSE IF CountNone(<<v.filter_map, v.static_map, v.method, v.for_each>>) < 2
    THEN {"Only one transform mechanism can be defined."}
    ELSE {}

\* TransformModel(**d)
TransformModelInit(d) ==
    LET values == [filter_map |-> lower_map_keys(d.filter_map),
                   static_map |-> lower_map_keys(d.static_map),
                   method |-> d.method,
                   for_each |-> d.for_each]
        errors == required_transform(values)
    IN  [ok |-> errors = {}, errors |-> errors, values |-> values]

-----------------------------------------------------------------------------
(* PathTransformModel / MetadataTransformModel *)

\* jmespath.compile(p) succeeds: over the tokens of PathTokens an expression
\* starts with an identifier, a wildcard or an index, continues with
\* ".identifier", ".*" or an index, and does not end with a dot
jmespath_compile(p) ==
    /\ Len(p) > 0
    /\ p[1] # "."
    /\ p[Len(p)] # "."
    /\ \A i \in 2..Len(p) :
          /\ p[i] \in {"a", "*"} => p[i - 1] = "."
          /\ p[i] \in {".", "[0]"} => p[i - 1] # "."

validate_path_unchecked(v) == {}

\* PathTransformModel._validate_path: the errors it raises
validate_path(v) ==
    IF v # None /\ ~jmespath_compile(v[1])
    THEN {"A valid path must be provided."}
    ELSE {}

\* PathTransformModel._default_or_path: the errors it raises
default_or_path(values) ==
    IF ~( TruthyStr(values.default) \/ TruthySeq(values.path) )
    THEN {"Either default or path or both must be defined."}
    ELSE {}

\* PathTransformModel(**d): a field that fails validation is missing from
\* the values handed to the root validator
PathTransformModelInit(d) ==
    LET perr == validate_path(d.path)
        values == [default |-> d.default,
                   path |-> IF perr = {} THEN d.path ELSE None]
        errors == perr \cup default_or_path(values)
    IN  [ok |-> errors = {}, errors |-> errors, values |-> values]

\* _always_array: value is a list [is_list, items] or a single value [is_list, item]
always_array(value) == IF ~value.is_list THEN << value.item >> ELSE value.items

\* MetadataTransformModel(**d)
MetadataTransformModelInit(d) ==
    LET base == PathTransformModelInit([default |-> d.default, path |-> d.path])
        rules == IF d.transform = None THEN << >> ELSE always_array(d.transform[1])
        built == [ i \in 1..Len(rules) |-> TransformModelInit(rules[i]) ]
        terr == UNION { built[i].errors : i \in 1..Len(built) }
        errors == base.errors \cup terr
    IN  [ok |-> errors = {}, errors |-> errors,
         values |-> [default |-> base.values.default, path |-> base.values.path,
                     transform |-> IF d.transform = None \/ terr # {} THEN None
                                   ELSE Some([ i \in 1..Len(built) |-> built[i].values ])]]

-----------------------------------------------------------------------------
(* IndicatorTransformModel *)

\* a MetadataTransformModel field: the validated model, or nothing when the
\* field is not given or fails validation
FieldValue(f) ==
    IF f # None /\ MetadataTransformModelInit(f[1]).ok
    THEN Some(MetadataTransformModelInit(f[1]).values) ELSE None
FieldErrors(f) == IF f = None THEN {} ELSE MetadataTransformModelInit(f[1]).errors

one_indicator_value_all(values) ==
    IF ~( TruthyObj(values.value1) /\ TruthyObj(values.value2)
          /\ TruthyObj(values.value3) )
    THEN {"An indicator transform must be defined (e.g., summary, value1, value2, value3)."}
    ELSE {}

\* IndicatorTransformModel._one_indicator_value: the errors it raises
one_indicator_value(values) ==
    IF ~( TruthyObj(values.value1) \/ TruthyObj(values.value2)
          \/ TruthyObj(values.value3) )
    THEN {"An indicator transform must be defined (e.g., summary, value1, value2, value3)."}
    ELSE {}

\* IndicatorTransformModel(**d); `type` is a required field
IndicatorTransformModelInit(d) ==
    LET values == [type |-> FieldValue(d.type), value1 |-> FieldValue(d.value1),
                   value2 |-> FieldValue(d.value2), value3 |-> FieldValue(d.value3)]
        ferr == (IF d.type = None THEN {"field required"} ELSE {})
                \cup FieldErrors(d.type) \cup FieldErrors(d.value1)
                \cup FieldErrors(d.value2) \cup FieldErrors(d.value3)
        errors == ferr \cup one_indicator_value(values)
    IN  [ok |-> errors = {}, errors |-> errors, values |-> values]


-----------------------------------------------------------------------------
(* Construction of the configuration models *)

NotBuilt == [ok |-> FALSE, errors |-> {}, values |-> None]

ConfigIdle == cls = "none" /\ doc = None /\ model = NotBuilt

ConstructTransformModel ==
    /\ cls = "none"
    /\ \E d \in TransformDocs :
          /\ cls' = "TransformModel"
          /\ doc' = d
          /\ model' = TransformModelInit(d)
    /\ UNCHANGED <<runvars, itemvars, extvars>>

ConstructPathTransformModel ==
    /\ cls = "none"
    /\ \E d \in PathDocs :
          /\ cls' = "PathTransformModel"
          /\ doc' = d
          /\ model' = PathTransformModelInit(d)
    /\ UNCHANGED <<runvars, itemvars, extvars>>

ConstructMetadataTransformModel ==
    /\ cls = "none"
    /\ \E d \in MetadataDocs :
          /\ cls' = "MetadataTransformModel"
          /\ doc' = d
          /\ model' = MetadataTransformModelInit(d)
    /\ UNCHANGED <<runvars, itemvars, extvars>>

ConstructIndicatorTransformModel ==
    /\ cls = "none"
    /\ \E d \in IndicatorDocs :
          /\ cls' = "IndicatorTransformModel"
          /\ doc' = d
          /\ model' = IndicatorTransformModelInit(d)
    /\ UNCHANGED <<runvars, itemvars, extvars>>

RunIdle ==
    /\ ti_dicts = << >>
    /\ raise_exceptions = FALSE
    /\ seperate_batch_associations = FALSE
    /\ pc = "idle"
    /\ index = 0
    /\ transformed_collection = << >>
    /\ batch = << >>
    /\ v3_data = << >>
    /\ exc = None
    /\ log = << >>
    /\ evaluated = << >>
    /\ previous = None

\* no collection is being iterated
IterIdle ==
    /\ it_server = << >>
    /\ it_conf = << >>
    /\ it_pc = "idle"
    /\ it_url = None
    /\ it_params = {}
    /\ it_requests = << >>
    /\ it_yielded = << >>
    /\ it_data = << >>

\* no RunService message is being processed
SvcIdle ==
    /\ svc_message = << >>
    /\ svc_pc = "idle"
    /\ svc_token = FALSE
    /\ svc_event = FALSE
    /\ svc_redis = {}
    /\ svc_handler = "none"
    /\ svc_published = << >>
    /\ svc_metrics = << >>

\* no playbook output is being written
PbIdle ==
    /\ pb_output_variables = << >>
    /\ pb_store = << >>
    /\ pb_call = << >>
    /\ pb_pc = "idle"
    /\ pb_exc = None

ExtIdle == IterIdle /\ SvcIdle /\ PbIdle

\* no record is being built
ItemIdle ==
    /\ ti = << >>
    /\ stage = "idle"
    /\ calls = << >>
    /\ ti_exc = None
    /\ result = << >>

ConfigInit == ConfigIdle /\ RunIdle /\ ItemIdle /\ ExtIdle

ConfigNext ==
    \/ ConstructTransformModel
    \/ ConstructPathTransformModel
    \/ ConstructMetadataTransformModel
    \/ ConstructIndicatorTransformModel

SpecConfig == ConfigInit /\ [][ConfigNext]_vars


-----------------------------------------------------------------------------
(* TiTransform: one record's builder *)

\* the key names of a transformed item, in the order sorted() gives them
SortedKeyNames ==
    << "associatedGroupXid", "associatedGroups", "associatedIndicators",
       "association", "attribute", "attributes", "confidence", "description",
       "fileOccurrence",
       "fileOccurrences", "name", "rating", "securityLabel", "securityLabels",
       "summary", "tag", "tags", "type", "xid" >>

\* dict.setdefault(k, []).append(x)
SetDefaultAppend(d, k, x) ==
    IF DictHas(d, k) THEN DictSet(d, k, Append(DictGet(d, k), x))
    ELSE Append(d, <<k, <<x>>>>)

\* dict.get(k) is truthy, for a key holding a list
GetTruthy(d, k) == DictHas(d, k) /\ Len(DictGet(d, k)) > 0

\* dict.setdefault(k, []) alone: what is left when the argument of the
\* append that follows raises
SetDefault(d, k) == IF DictHas(d, k) THEN d ELSE Append(d, <<k, << >> >>)

\* the outcome of a helper call: the transformed item after it and the
\* exception it raised, if any
Returned(item) == [item |-> item, raised |-> None]
Raised(item, e) == [item |-> item, raised |-> Some(e)]

\* TiTransform.add_custom_association
add_custom_association(t, summary, indicator_type, association_type) ==
    LET item == t.transformed_item IN
    IF ~t.seperate_batch_associations
    THEN Raised(item, "TransformException")
    ELSE IF ~DictHas(item, "summary") \/ ~DictHas(item, "type")
    THEN Raised(SetDefault(item, "association"), "KeyError")
    ELSE Returned(SetDefaultAppend(item, "association",
            << <<"ref_1", DictGet(item, "summary")>>, <<"type_1", DictGet(item, "type")>>,
               <<"ref_2", summary>>, <<"type_2", indicator_type>>,
               <<"association_type", association_type>> >>))

add_associated_indicator_inverted(t, summary, indicator_type) ==
    LET item == t.transformed_item IN
    IF t.seperate_batch_associations
    THEN Returned(SetDefaultAppend(item, "associatedIndicators",
            << <<"summary", summary>>, <<"indicatorType", indicator_type>> >>))
    ELSE IF ~DictHas(item, "xid")
    THEN Raised(SetDefault(item, "association"), "KeyError")
    ELSE Returned(SetDefaultAppend(item, "association",
            << <<"ref_1", DictGet(item, "xid")>>, <<"ref_2", summary>>,
               <<"type_2", indicator_type>> >>))

\* TiTransform.add_associated_indicator
add_associated_indicator(t, summary, indicator_type) ==
    LET item == t.transformed_item IN
    IF ~t.seperate_batch_associations
    THEN Returned(SetDefaultAppend(item, "associatedIndicators",
            << <<"summary", summary>>, <<"indicatorType", indicator_type>> >>))
    ELSE IF ~DictHas(item, "xid")
    THEN Raised(SetDefault(item, "association"), "KeyError")
    ELSE Returned(SetDefaultAppend(item, "association",
            << <<"ref_1", DictGet(item, "xid")>>, <<"ref_2", summary>>,
               <<"type_2", indicator_type>> >>))

add_associated_group_ref_xid(t, group_xid) ==
    LET item == t.transformed_item IN
    IF ~t.seperate_batch_associations
    THEN IF t.transform = "GroupTransformModel"
         THEN Returned(SetDefaultAppend(item, "associatedGroupXid", group_xid))
         ELSE IF t.transform = "IndicatorTransformModel"
         THEN Returned(SetDefaultAppend(item, "associatedGroups",
                                        << <<"groupXid", group_xid>> >>))
         ELSE Returned(item)
    ELSE IF ~DictHas(item, "xid")
    THEN Raised(SetDefault(item, "association"), "KeyError")
    ELSE Returned(SetDefaultAppend(item, "association",
            << <<"ref_1", group_xid>>, <<"ref_2", DictGet(item, "xid")>> >>))

\* TiTransform.add_associated_group
add_associated_group(t, group_xid) ==
    LET item == t.transformed_item IN
    IF ~t.seperate_batch_associations
    THEN IF t.transform = "GroupTransformModel"
         THEN Returned(SetDefaultAppend(item, "associatedGroupXid", group_xid))
         ELSE IF t.transform = "IndicatorTransformModel"
         THEN Returned(SetDefaultAppend(item, "associatedGroups",
                                        << <<"groupXid", group_xid>> >>))
         ELSE Returned(item)
    ELSE IF t.transform = "GroupTransformModel"
    THEN IF ~DictHas(item, "xid")
         THEN Raised(SetDefault(item, "association"), "KeyError")
         ELSE Returned(SetDefaultAppend(item, "association",
                 << <<"ref_1", group_xid>>, <<"ref_2", DictGet(item, "xid")>> >>))
    ELSE IF t.transform = "IndicatorTransformModel"
    THEN IF ~DictHas(item, "summary") \/ ~DictHas(item, "type")
         THEN Raised(SetDefault(item, "association"), "KeyError")
         ELSE Returned(SetDefaultAppend(item, "association",
                 << <<"ref_1", group_xid>>, <<"ref_2", DictGet(item, "summary")>>,
                    <<"type_2", DictGet(item, "type")>> >>))
    ELSE Returned(item)

\* TiTransform.add_attribute
add_attribute(t, type_, value, displayed, pinned, source) ==
    LET item == t.transformed_item
        a0 == << <<"type", type_[1]>>, <<"value", value[1]>> >>
        a1 == IF displayed = TRUE THEN Append(a0, <<"displayed", displayed>>) ELSE a0
        a2 == IF pinned = TRUE THEN DictSet(a1, "pinned", displayed) ELSE a1
        a3 == IF source # None THEN DictSet(a2, "source", source[1]) ELSE a2
    IN  IF type_ # None /\ value # None
        THEN Returned(SetDefaultAppend(item, "attribute", a3))
        ELSE Returned(item)

\* TiTransform.add_file_occurrence: the entry keeps the truthy arguments
add_file_occurrence(t, file_name, path, date) ==
    LET f0 == << >>
        f1 == IF TruthyStr(file_name) THEN Append(f0, <<"fileName", file_name[1]>>) ELSE f0
        f2 == IF TruthyStr(path) THEN Append(f1, <<"path", path[1]>>) ELSE f1
        f3 == IF TruthyStr(date) THEN Append(f2, <<"date", date[1]>>) ELSE f2
    IN  Returned(SetDefaultAppend(t.transformed_item, "fileOccurrence", f3))

\* TiTransform.add_confidence, with int(confidence) already applied
add_confidence(t, confidence) ==
    IF confidence # None
    THEN Returned(DictSet(t.transformed_item, "confidence", confidence[1]))
    ELSE Returned(t.transformed_item)

\* TiTransform.add_metadata: all([key, value])
add_metadata(t, key, value) ==
    IF TruthyStr(key) /\ TruthyStr(value)
    THEN Returned(DictSet(t.transformed_item, key[1], value[1]))
    ELSE Returned(t.transformed_item)

\* TiTransform.add_name
add_name(t, name) ==
    IF name # None THEN Returned(DictSet(t.transformed_item, "name", name[1]))
    ELSE Returned(t.transformed_item)

\* TiTransform.add_rating, with float(rating) already applied
add_rating(t, rating) ==
    IF rating # None THEN Returned(DictSet(t.transformed_item, "rating", rating[1]))
    ELSE Returned(t.transformed_item)

\* TiTransform.add_summary
add_summary(t, value) ==
    IF value # None THEN Returned(DictSet(t.transformed_item, "summary", value[1]))
    ELSE Returned(t.transformed_item)

\* TiTransform.add_security_label
add_security_label(t, name, color, description) ==
    LET l0 == << <<"name", name[1]>> >>
        l1 == IF color # None THEN Append(l0, <<"color", color[1]>>) ELSE l0
        l2 == IF description # None THEN Append(l1, <<"description", description[1]>>)
              ELSE l1
    IN  IF name # None
        THEN Returned(SetDefaultAppend(t.transformed_item, "securityLabel", l2))
        ELSE Returned(t.transformed_item)

\* TiTransform.add_tag
add_tag(t, name) ==
    IF name # None
    THEN Returned(SetDefaultAppend(t.transformed_item, "tag", << <<"name", name[1]>> >>))
    ELSE Returned(t.transformed_item)

\* TiTransform.add_group / add_indicator: the adhoc list after the call
add_group(t, group_data) == Append(t.adhoc_groups, group_data)
add_indicator(t, indicator_data) == Append(t.adhoc_indicators, indicator_data)

\* TiTransform(ti_dict, transforms, seperate_batch_associations=...)
TiTransformInit(ti_dict, sep) ==
    [ti_dict |-> ti_dict, seperate_batch_associations |-> sep, transform |-> "None",
     transformed_item |-> << >>, adhoc_groups |-> << >>, adhoc_indicators |-> << >>]

TypeName(transform) ==
    IF transform = "GroupTransformModel" THEN "Adversary" ELSE "Address"

\* the payload a user callable hands to add_group / add_indicator
AdhocGroup(x) == << <<"name", 0 - x>>, <<"type", "Adversary">>, <<"xid", 0 - x>> >>
AdhocIndicator(x) == << <<"summary", 0 - x>>, <<"type", "Address">>, <<"xid", 0 - x>> >>

\* TransformABC._process: selects the transform that applies to the record,
\* evaluates its fields into transformed_item and runs the user callables,
\* which may call the add_* helpers; the record says how its evaluation ends.
\* Returns the builder after the call and the exception raised, if any.
Process(t) ==
    LET r == t.ti_dict
        t1 == [t EXCEPT !.transform = r.transform]
        t2 == [t1 EXCEPT !.transformed_item =
                 << <<"type", TypeName(r.transform)>>, <<"xid", r.xid>>,
                    <<(IF r.transform = "GroupTransformModel" THEN "name" ELSE "summary"),
                      r.xid>> >>]
        t3 == [t2 EXCEPT !.adhoc_groups =
                 IF r.adhoc_groups > 0 THEN add_group(t2, AdhocGroup(r.xid)) ELSE @]
        t4 == [t3 EXCEPT !.adhoc_indicators =
                 IF r.adhoc_indicators > 0 THEN add_indicator(t3, AdhocIndicator(r.xid)) ELSE @]
        t5 == [t4 EXCEPT !.transformed_item =
                 IF r.association > 0 THEN add_associated_group(t4, 0).item ELSE @]
    IN  IF r.outcome = "NoValidTransformException"
        THEN [t |-> t, raised |-> Some(r.outcome)]
        ELSE [t |-> t5, raised |-> IF r.outcome = "ok" THEN None ELSE Some(r.outcome)]

SortedDict_insertion_order(d) == d

\* dict(sorted(d.items()))
SortedDict(d) ==
    LET ord == SelectSeq(SortedKeyNames, LAMBDA k : DictHas(d, k))
    IN  [ i \in 1..Len(ord) |-> <<ord[i], DictGet(d, ord[i])>> ]

\* TiTransform.batch (after _process): the data it returns
TiBatch(t) == SortedDict(t.transformed_item)

\* a.get(k, default) of an entry dict
GetOr(a, k, default) == IF DictHas(a, k) THEN DictGet(a, k) ELSE default

Wrap_drops_last(v3, old, new, data) ==
    IF GetTruthy(v3, old)
    THEN DictDel(DictSet(v3, new, << <<"data", SubSeq(data, 1, Len(data) - 1)>> >>), old)
    ELSE v3

Wrap_always(v3, old, new, data) ==
    DictDel(DictSet(v3, new,
                    << <<"data", IF GetTruthy(v3, old) THEN data ELSE << >> >> >>), old)

\* the restructuring of one list key of TiTransform.v3_api
Wrap(v3, old, new, data) ==
    IF GetTruthy(v3, old)
    THEN DictDel(DictSet(v3, new, << <<"data", data>> >>), old)
    ELSE v3

\* TiTransform.v3_api (after _process): the data it returns
TiV3Api(t) ==
    LET v0 == t.transformed_item
        xids == GetOr(v0, "associatedGroupXid", << >>)
        \* a dict comprehension inside the list: one dict, the last xid
        v1 == Wrap(v0, "associatedGroupXid", "associatedGroups",
                   << << <<"xid", xids[Len(xids)]>> >> >>)
        attr == GetOr(v1, "attribute", << >>)
        v2 == Wrap(v1, "attribute", "attributes",
                   [ i \in 1..Len(attr) |->
                       << <<"type", DictGet(attr[i], "type")>>,
                          <<"value", DictGet(attr[i], "value")>>,
                          <<"pinned", GetOr(attr[i], "pinned", FALSE)>>,
                          <<"source", GetOr(attr[i], "source", "None")>> >> ])
        tag == GetOr(v2, "tag", << >>)
        v3 == Wrap(v2, "tag", "tags",
                   [ i \in 1..Len(tag) |-> << <<"name", DictGet(tag[i], "name")>> >> ])
        lab == GetOr(v3, "securityLabel", << >>)
        v4 == Wrap(v3, "securityLabel", "securityLabels",
                   [ i \in 1..Len(lab) |->
                       << <<"name", DictGet(lab[i], "name")>>,
                          <<"color", GetOr(lab[i], "color", "None")>>,
                          <<"description", GetOr(lab[i], "description", "None")>> >> ])
        occ == GetOr(v4, "fileOccurrence", << >>)
        v5 == Wrap(v4, "fileOccurrence", "fileOccurrences",
                   [ i \in 1..Len(occ) |->
                       << <<"fileName", GetOr(occ[i], "fileName", "None")>>,
                          <<"path", GetOr(occ[i], "path", "None")>>,
                          <<"date", GetOr(occ[i], "date", "None")>> >> ])
    IN  v5

-----------------------------------------------------------------------------
(* One record's builder under helper calls (SpecItem) *)

\* the fields of a record once type, xid and name / summary are written
BaseItem(transform) ==
    IF transform = "GroupTransformModel"
    THEN << <<"type", "Adversary">>, <<"xid", "x1">>, <<"name", "n1">> >>
    ELSE << <<"type", "Address">>, <<"xid", "x1">>, <<"summary", "1.1.1.1">> >>

\* the arguments the user callables pass to the helpers
GroupXids == {"g1", "g2"}
AttributeArgs ==
    { [value |-> "v1", displayed |-> FALSE, pinned |-> FALSE, source |-> None],
      [value |-> "v2", displayed |-> TRUE, pinned |-> TRUE, source |-> Some("feed")],
      [value |-> "v3", displayed |-> FALSE, pinned |-> TRUE, source |-> None] }
TagNames == {"t1", "t2"}
SecurityLabelArgs ==
    { [name |-> "TLP:RED", color |-> None, description |-> None],
      [name |-> "TLP:AMBER", color |-> Some("FFC000"), description |-> Some("amber")] }
FileOccurrenceArgs ==
    { [file_name |-> None, path |-> None, date |-> None],
      [file_name |-> Some("a.exe"), path |-> Some("C:/tmp"), date |-> Some("2020-01-01")] }

\* a record whose transform is selected, before or after its base fields
\* are written
ItemStart ==
    /\ \E transform \in {"GroupTransformModel", "IndicatorTransformModel"},
          sep \in BOOLEAN, written \in BOOLEAN :
          ti = [TiTransformInit(<< >>, sep) EXCEPT
                  !.transform = transform,
                  !.transformed_item = IF written THEN BaseItem(transform) ELSE << >>]
    /\ stage = "building"
    /\ calls = << >>
    /\ ti_exc = None
    /\ result = << >>

\* a user callable calls a helper: the call either returns or raises out of
\* the evaluation of the record
HelperCall(op, args, out) ==
    /\ stage = "building"
    /\ Len(calls) < MaxCalls
    /\ calls' = Append(calls, [op |-> op, args |-> args])
    /\ ti' = [ti EXCEPT !.transformed_item = out.item]
    /\ ti_exc' = out.raised
    /\ stage' = IF out.raised = None THEN "building" ELSE "raised"
    /\ UNCHANGED result
    /\ UNCHANGED <<cfgvars, runvars, extvars>>

CallAddAssociatedGroup ==
    \E g \in GroupXids :
        HelperCall("add_associated_group", <<g>>, add_associated_group(ti, g))

CallAddAssociatedIndicator ==
    HelperCall("add_associated_indicator", <<"9.9.9.9", "Address">>,
               add_associated_indicator(ti, "9.9.9.9", "Address"))

CallAddCustomAssociation ==
    HelperCall("add_custom_association", <<"9.9.9.9", "Address", "Uses">>,
               add_custom_association(ti, "9.9.9.9", "Address", "Uses"))

CallAddAttribute ==
    \E a \in AttributeArgs :
        HelperCall("add_attribute", <<a>>,
                   add_attribute(ti, Some("Description"), Some(a.value), a.displayed,
                                 a.pinned, a.source))

CallAddTag ==
    \E name \in TagNames : HelperCall("add_tag", <<name>>, add_tag(ti, Some(name)))

CallAddSecurityLabel ==
    \E l \in SecurityLabelArgs :
        HelperCall("add_security_label", <<l>>,
                   add_security_label(ti, Some(l.name), l.color, l.description))

CallAddFileOccurrence ==
    \E f \in FileOccurrenceArgs :
        HelperCall("add_file_occurrence", <<f>>,
                   add_file_occurrence(ti, f.file_name, f.path, f.date))

CallAddConfidence ==
    HelperCall("add_confidence", <<50>>, add_confidence(ti, Some(50)))

\* TiTransform.batch returns once the evaluation of the record is over
ReadBatch ==
    /\ stage = "building"
    /\ stage' = "batch"
    /\ result' = TiBatch(ti)
    /\ UNCHANGED <<ti, calls, ti_exc>>
    /\ UNCHANGED <<cfgvars, runvars, extvars>>

\* TiTransform.v3_api returns once the evaluation of the record is over
ReadV3Api ==
    /\ stage = "building"
    /\ stage' = "v3_api"
    /\ result' = TiV3Api(ti)
    /\ UNCHANGED <<ti, calls, ti_exc>>
    /\ UNCHANGED <<cfgvars, runvars, extvars>>

ItemNext ==
    \/ CallAddAssociatedGroup
    \/ CallAddAssociatedIndicator
    \/ CallAddCustomAssociation
    \/ CallAddAttribute
    \/ CallAddTag
    \/ CallAddSecurityLabel
    \/ CallAddFileOccurrence
    \/ CallAddConfidence
    \/ ReadBatch
    \/ ReadV3Api

ItemInit == ConfigIdle /\ RunIdle /\ ItemStart /\ ExtIdle

SpecItem == ItemInit /\ [][ItemNext]_vars

-----------------------------------------------------------------------------
(* The helpers under any arguments, null ones included (SpecHelpers) *)

\* None where a helper stores its argument as it is
PyNone == "None"

AnyGroupXids == {"g1", PyNone}
AnySummaries == {"9.9.9.9", PyNone}
AnyAssociationTypes == {"Uses", PyNone}
AnyAttributeArgs ==
    { [type_ |-> None, value |-> Some("v1"), displayed |-> FALSE, pinned |-> FALSE],
      [type_ |-> Some("Description"), value |-> None, displayed |-> FALSE,
       pinned |-> FALSE] }
    \cup { [type_ |-> Some("Description"), value |-> Some("v1"), displayed |-> d,
            pinned |-> p] : d, p \in BOOLEAN }
AnyNames == {None, Some("n2")}
AnyNumbers == {None, Some(3)}
AnyFileNames == {None, Some("a.exe")}
AnyMetadata ==
    { [key |-> None, value |-> Some("d")],
      [key |-> Some("description"), value |-> None],
      [key |-> Some("description"), value |-> Some("d")] }

AnyAddAssociatedGroup ==
    \E g \in AnyGroupXids :
        HelperCall("add_associated_group", <<g>>, add_associated_group(ti, g))

AnyAddAssociatedIndicator ==
    \E summary \in AnySummaries :
        HelperCall("add_associated_indicator", <<summary, "Address">>,
                   add_associated_indicator(ti, summary, "Address"))

AnyAddCustomAssociation ==
    \E association_type \in AnyAssociationTypes :
        HelperCall("add_custom_association", <<"9.9.9.9", "Address", association_type>>,
                   add_custom_association(ti, "9.9.9.9", "Address", association_type))

AnyAddAttribute ==
    \E a \in AnyAttributeArgs :
        HelperCall("add_attribute", <<a>>,
                   add_attribute(ti, a.type_, a.value, a.displayed, a.pinned, None))

AnyAddTag ==
    \E name \in AnyNames : HelperCall("add_tag", <<name>>, add_tag(ti, name))

AnyAddSecurityLabel ==
    \E name \in AnyNames :
        HelperCall("add_security_label", <<name>>,
                   add_security_label(ti, name, None, None))

AnyAddFileOccurrence ==
    \E file_name \in AnyFileNames :
        HelperCall("add_file_occurrence", <<file_name>>,
                   add_file_occurrence(ti, file_name, None, None))

AnyAddConfidence ==
    \E confidence \in AnyNumbers :
        HelperCall("add_confidence", <<confidence>>, add_confidence(ti, confidence))

AnyAddRating ==
    \E rating \in AnyNumbers :
        HelperCall("add_rating", <<rating>>, add_rating(ti, rating))

AnyAddName ==
    \E name \in AnyNames : HelperCall("add_name", <<name>>, add_name(ti, name))

AnyAddSummary ==
    \E value \in AnyNames : HelperCall("add_summary", <<value>>, add_summary(ti, value))

AnyAddMetadata ==
    \E m \in AnyMetadata :
        HelperCall("add_metadata", <<m.key, m.value>>, add_metadata(ti, m.key, m.value))

HelpersNext ==
    \/ AnyAddAssociatedGroup
    \/ AnyAddAssociatedIndicator
    \/ AnyAddCustomAssociation
    \/ AnyAddAttribute
    \/ AnyAddTag
    \/ AnyAddSecurityLabel
    \/ AnyAddFileOccurrence
    \/ AnyAddConfidence
    \/ AnyAddRating
    \/ AnyAddName
    \/ AnyAddSummary
    \/ AnyAddMetadata

SpecHelpers == ItemInit /\ [][HelpersNext]_vars

-----------------------------------------------------------------------------
(* TiTransforms: the collection processor *)

\* how the evaluation of one raw record goes: the transform that applies to
\* it, how _process ends, and what its user callables add on the way
Evaluations ==
    { \* a Group and an Indicator record
      [transform |-> "GroupTransformModel", outcome |-> "ok",
       adhoc_groups |-> 0, adhoc_indicators |-> 0, association |-> 0],
      [transform |-> "IndicatorTransformModel", outcome |-> "ok",
       adhoc_groups |-> 0, adhoc_indicators |-> 0, association |-> 0],
      \* a callable adds an adhoc entity of the other kind
      [transform |-> "GroupTransformModel", outcome |-> "ok",
       adhoc_groups |-> 0, adhoc_indicators |-> 1, association |-> 0],
      [transform |-> "IndicatorTransformModel", outcome |-> "ok",
       adhoc_groups |-> 1, adhoc_indicators |-> 0, association |-> 0],
      \* a callable calls add_associated_group
      [transform |-> "GroupTransformModel", outcome |-> "ok",
       adhoc_groups |-> 0, adhoc_indicators |-> 0, association |-> 1],
      [transform |-> "IndicatorTransformModel", outcome |-> "ok",
       adhoc_groups |-> 0, adhoc_indicators |-> 0, association |-> 1],
      \* no transform applies
      [transform |-> "None", outcome |-> "NoValidTransformException",
       adhoc_groups |-> 0, adhoc_indicators |-> 0, association |-> 0],
      \* a field transform fails after a callable added an adhoc group
      [transform |-> "GroupTransformModel", outcome |-> "TransformException",
       adhoc_groups |-> 1, adhoc_indicators |-> 0, association |-> 0],
      \* a callable raises an unexpected error
      [transform |-> "IndicatorTransformModel", outcome |-> "Exception",
       adhoc_groups |-> 0, adhoc_indicators |-> 0, association |-> 0] }

\* the raw records of a run: the record at position i has xid i
Inputs ==
    { [ i \in 1..Len(es) |->
          [xid |-> i, transform |-> es[i].transform, outcome |-> es[i].outcome,
           adhoc_groups |-> es[i].adhoc_groups,
           adhoc_indicators |-> es[i].adhoc_indicators,
           association |-> es[i].association] ] :
      es \in SeqsUpTo(Evaluations, MaxRecords) }

process_keeps_builders(dicts, sep) ==
    IF Len(transformed_collection) = Len(dicts) THEN transformed_collection
    ELSE [ i \in 1..Len(dicts) |-> TiTransformInit(dicts[i], sep) ]

\* TiTransforms.process
process(dicts, sep) == [ i \in 1..Len(dicts) |-> TiTransformInit(dicts[i], sep) ]

\* the progress trace of the loops: every 1000 items
TraceEvery == 1000
ProgressTrace(i) == IF i # 0 /\ i % TraceEvery = 0 THEN <<"trace">> ELSE << >>

OnException_novalid_escalates(e, re) ==
    IF e = "TransformException" \/ e = "NoValidTransformException"
    THEN [log |-> "warning", reraise |-> re]
    ELSE [log |-> "exception", reraise |-> re]

OnException_flag_inverted(e, re) ==
    IF e = "NoValidTransformException" THEN [log |-> "exception", reraise |-> FALSE]
    ELSE IF e = "TransformException" THEN [log |-> "warning", reraise |-> ~re]
    ELSE [log |-> "exception", reraise |-> ~re]

OnException_swallows_unexpected(e, re) ==
    IF e = "NoValidTransformException" THEN [log |-> "exception", reraise |-> FALSE]
    ELSE IF e = "TransformException" THEN [log |-> "warning", reraise |-> re]
    ELSE [log |-> "exception", reraise |-> FALSE]

\* the except clauses of TiTransforms.batch and TiTransforms.v3_api: the log
\* event, and whether the exception is raised again (otherwise: continue)
OnException(e, re) ==
    IF e = "NoValidTransformException" THEN [log |-> "exception", reraise |-> FALSE]
    ELSE IF e = "TransformException" THEN [log |-> "warning", reraise |-> re]
    ELSE [log |-> "exception", reraise |-> re]

BucketOf_always_group(transform) == "group"

\* the bucket TiTransforms.batch appends the data of a record to
BucketOf(transform) ==
    IF transform = "GroupTransformModel" THEN "group"
    ELSE IF transform = "IndicatorTransformModel" THEN "indicator"
    ELSE "none"

ListAppend_in_front(l, x) == <<x>> \o l

\* list.append
ListAppend(l, x) == Append(l, x)

BatchCollect_keeps_association(b, t, data, sep) ==
    LET associations == GetOr(data, "association", << >>)
        b1 == IF sep
              THEN DictSet(b, "association", GetOr(b, "association", << >>) \o associations)
              ELSE b
        bucket == BucketOf(t.transform)
        b2 == IF bucket = "none" THEN b1
              ELSE DictSet(b1, bucket, ListAppend(DictGet(b1, bucket), data))
        b3 == DictSet(b2, "group", DictGet(b2, "group") \o t.adhoc_groups)
    IN  DictSet(b3, "indicator", DictGet(b3, "indicator") \o t.adhoc_indicators)

\* the body of the loop of TiTransforms.batch once `data = t.batch` returned
BatchCollect(b, t, data, sep) ==
    LET associations == GetOr(data, "association", << >>)
        data1 == IF sep THEN DictDel(data, "association") ELSE data
        b1 == IF sep
              THEN DictSet(b, "association", GetOr(b, "association", << >>) \o associations)
              ELSE b
        bucket == BucketOf(t.transform)
        b2 == IF bucket = "none" THEN b1
              ELSE DictSet(b1, bucket, ListAppend(DictGet(b1, bucket), data1))
        b3 == DictSet(b2, "group", DictGet(b2, "group") \o t.adhoc_groups)
    IN  DictSet(b3, "indicator", DictGet(b3, "indicator") \o t.adhoc_indicators)

\* v3_data.setdefault(data.pop('type'), []).extend(data): extending a list by
\* a dict appends the keys of the dict
V3Collect(v, data) ==
    LET type == DictGet(data, "type")
        rest == DictKeys(DictDel(data, "type"))
    IN  DictSet(v, type, GetOr(v, type, << >>) \o rest)

RunInit ==
    /\ ti_dicts \in Inputs
    /\ raise_exceptions \in BOOLEAN
    /\ seperate_batch_associations \in BOOLEAN
    /\ pc = "idle"
    /\ index = 0
    /\ transformed_collection = << >>
    /\ batch = << >>
    /\ v3_data = << >>
    /\ exc = None
    /\ log = << >>
    /\ evaluated = << >>
    /\ previous = None

\* the caller reads TiTransforms.batch: up to the loop
CallBatch ==
    /\ pc = "idle"
    /\ transformed_collection' = process(ti_dicts, seperate_batch_associations)
    /\ batch' = << <<"group", << >> >>, <<"indicator", << >> >> >>
    /\ log' = Append(log, "trace")
    /\ index' = 1
    /\ pc' = "batch"
    /\ UNCHANGED <<ti_dicts, raise_exceptions, seperate_batch_associations,
                   v3_data, exc, evaluated>>
    /\ UNCHANGED <<cfgvars, itemvars, previous, extvars>>

\* one iteration of the loop of TiTransforms.batch
BatchStep ==
    /\ pc = "batch"
    /\ index <= Len(transformed_collection)
    /\ LET p == Process(transformed_collection[index])
           h == OnException(p.raised[1], raise_exceptions)
       IN  /\ transformed_collection' = [transformed_collection EXCEPT ![index] = p.t]
           /\ evaluated' = Append(evaluated, index)
           /\ IF p.raised = None
              THEN /\ batch' = BatchCollect(batch, p.t, TiBatch(p.t),
                                            seperate_batch_associations)
                   /\ log' = log \o ProgressTrace(index - 1)
                   /\ index' = index + 1
                   /\ UNCHANGED <<pc, exc>>
              ELSE /\ log' = (log \o ProgressTrace(index - 1)) \o <<h.log>>
                   /\ IF h.reraise
                      THEN /\ pc' = "raised"
                           /\ exc' = p.raised
                           /\ UNCHANGED index
                      ELSE /\ index' = index + 1
                           /\ UNCHANGED <<pc, exc>>
                   /\ UNCHANGED batch
    /\ UNCHANGED <<ti_dicts, raise_exceptions, seperate_batch_associations, v3_data>>
    /\ UNCHANGED <<cfgvars, itemvars, previous, extvars>>

\* `return batch`
BatchReturn ==
    /\ pc = "batch"
    /\ index > Len(transformed_collection)
    /\ pc' = "done_batch"
    /\ UNCHANGED <<ti_dicts, raise_exceptions, seperate_batch_associations, index,
                   transformed_collection, batch, v3_data, exc, log, evaluated>>
    /\ UNCHANGED <<cfgvars, itemvars, previous, extvars>>

\* the caller reads TiTransforms.v3_api: up to the loop
CallV3Api ==
    /\ pc = "idle"
    /\ transformed_collection' = process(ti_dicts, seperate_batch_associations)
    /\ v3_data' = << >>
    /\ log' = Append(log, "trace")
    /\ index' = 1
    /\ pc' = "v3_api"
    /\ UNCHANGED <<ti_dicts, raise_exceptions, seperate_batch_associations,
                   batch, exc, evaluated>>
    /\ UNCHANGED <<cfgvars, itemvars, previous, extvars>>

\* one iteration of the loop of TiTransforms.v3_api
V3ApiStep ==
    /\ pc = "v3_api"
    /\ index <= Len(transformed_collection)
    /\ LET p == Process(transformed_collection[index])
           h == OnException(p.raised[1], raise_exceptions)
       IN  /\ transformed_collection' = [transformed_collection EXCEPT ![index] = p.t]
           /\ evaluated' = Append(evaluated, index)
           /\ IF p.raised = None
              THEN /\ v3_data' = V3Collect(v3_data, TiV3Api(p.t))
                   /\ log' = log \o ProgressTrace(index - 1)
                   /\ index' = index + 1
                   /\ UNCHANGED <<pc, exc>>
              ELSE /\ log' = (log \o ProgressTrace(index - 1)) \o <<h.log>>
                   /\ IF h.reraise
                      THEN /\ pc' = "raised"
                           /\ exc' = p.raised
                           /\ UNCHANGED index
                      ELSE /\ index' = index + 1
                           /\ UNCHANGED <<pc, exc>>
                   /\ UNCHANGED v3_data
    /\ UNCHANGED <<ti_dicts, raise_exceptions, seperate_batch_associations, batch>>
    /\ UNCHANGED <<cfgvars, itemvars, previous, extvars>>

\* `return v3_data`
V3ApiReturn ==
    /\ pc = "v3_api"
    /\ index > Len(transformed_collection)
    /\ pc' = "done_v3_api"
    /\ UNCHANGED <<ti_dicts, raise_exceptions, seperate_batch_associations, index,
                   transformed_collection, batch, v3_data, exc, log, evaluated>>
    /\ UNCHANGED <<cfgvars, itemvars, previous, extvars>>

\* the caller reads TiTransforms.batch once more, keeping what it got before
BatchAgain ==
    /\ pc = "done_batch"
    /\ previous = None
    /\ previous' = Some(batch)
    /\ transformed_collection' = process(ti_dicts, seperate_batch_associations)
    /\ batch' = << <<"group", << >> >>, <<"indicator", << >> >> >>
    /\ log' = Append(log, "trace")
    /\ index' = 1
    /\ pc' = "batch"
    /\ UNCHANGED <<ti_dicts, raise_exceptions, seperate_batch_associations,
                   v3_data, exc, evaluated>>
    /\ UNCHANGED <<cfgvars, itemvars, extvars>>

\* the caller reads TiTransforms.v3_api once more, keeping what it got before
V3ApiAgain ==
    /\ pc = "done_v3_api"
    /\ previous = None
    /\ previous' = Some(v3_data)
    /\ transformed_collection' = process(ti_dicts, seperate_batch_associations)
    /\ v3_data' = << >>
    /\ log' = Append(log, "trace")
    /\ index' = 1
    /\ pc' = "v3_api"
    /\ UNCHANGED <<ti_dicts, raise_exceptions, seperate_batch_associations,
                   batch, exc, evaluated>>
    /\ UNCHANGED <<cfgvars, itemvars, extvars>>

Init == ConfigIdle /\ RunInit /\ ItemIdle /\ ExtIdle

Next ==
    \/ CallBatch
    \/ BatchStep
    \/ BatchReturn
    \/ CallV3Api
    \/ V3ApiStep
    \/ V3ApiReturn

Spec == Init /\ [][Next]_vars

\* runs in which an extraction is called a second time
RerunInputs == { dicts \in Inputs : Len(dicts) <= MaxRerunRecords }

RerunInit ==
    /\ ConfigIdle
    /\ ItemIdle
    /\ ExtIdle
    /\ ti_dicts \in RerunInputs
    /\ raise_exceptions \in BOOLEAN
    /\ seperate_batch_associations \in BOOLEAN
    /\ pc = "idle"
    /\ index = 0
    /\ transformed_collection = << >>
    /\ batch = << >>
    /\ v3_data = << >>
    /\ exc = None
    /\ log = << >>
    /\ evaluated = << >>
    /\ previous = None

RerunNext ==
    \/ CallBatch
    \/ BatchStep
    \/ BatchReturn
    \/ CallV3Api
    \/ V3ApiStep
    \/ V3ApiReturn
    \/ BatchAgain
    \/ V3ApiAgain

SpecRerun == RerunInit /\ [][RerunNext]_vars

-----------------------------------------------------------------------------
(* Properties of the configuration models (SpecConfig) *)

\* the number of transform mechanisms a TransformModel document sets
NumSet(d) ==
    Cardinality({ i \in 1..4 :
        <<d.filter_map, d.static_map, d.method, d.for_each>>[i] # None })

\* C1: a TransformModel is constructed exactly when one of filter_map,
\* static_map, method, for_each is set; with none, or with two or more,
\* construction fails.
C1_ExactlyOneMechanism ==
    cls = "TransformModel" => (model.ok <=> NumSet(doc) = 1)

\* C2: a PathTransformModel / MetadataTransformModel (its transform rules, if
\* any, left aside) is rejected when neither default nor path is set, and
\* constructed when at least one of them is set, a given path being valid.
C2_DefaultOrPath ==
    (cls = "PathTransformModel"
        \/ (cls = "MetadataTransformModel" /\ doc.transform = None))
    => /\ (doc.default = None /\ doc.path = None) => ~model.ok
       /\ ( /\ (doc.default # None \/ doc.path # None)
            /\ (doc.path # None => jmespath_compile(doc.path[1])) )
          => model.ok

Configured(f) == f # None /\ FieldErrors(f) = {}

\* C3: an IndicatorTransformModel is rejected when none of value1, value2,
\* value3 carries a field transform, and is constructed when at least one of
\* them and the required type do (every given field transform being itself a
\* valid one).
C3_OneIndicatorValue ==
    cls = "IndicatorTransformModel"
    => /\ (doc.value1 = None /\ doc.value2 = None /\ doc.value3 = None)
            => ~model.ok
       /\ ( /\ Configured(doc.type)
            /\ \E f \in {doc.value1, doc.value2, doc.value3} : Configured(f)
            /\ \A f \in {doc.value1, doc.value2, doc.value3} :
                  f # None => Configured(f) )
          => model.ok

C3_Witness ==
    /\ cls = "IndicatorTransformModel"
    /\ model.ok
    /\ doc.value1 = None
    /\ doc.value2 # None
    /\ doc.value3 = None

\* every key of the built map is lower-case and unique, and every key of the
\* configured map is found under its lower-cased spelling
LowerKeyed(given, built) ==
    given # None =>
        /\ built # None
        /\ \A i \in 1..Len(built[1]) : built[1][i][1] = lower(built[1][i][1])
        /\ Injective(DictKeys(built[1]))
        /\ \A i \in 1..Len(given[1]) : DictHas(built[1], lower(given[1][i][1]))
        /\ \A i \in 1..Len(built[1]) :
              \E j \in 1..Len(given[1]) : built[1][i][1] = lower(given[1][j][1])

\* C4: after construction of a TransformModel every key of filter_map and of
\* static_map is lower-case, so that keys differing only in case are one key,
\* found by the lower-cased input value.
C4_LowerMapKeys ==
    (cls = "TransformModel" /\ model.ok)
    => /\ LowerKeyed(doc.filter_map, model.values.filter_map)
       /\ LowerKeyed(doc.static_map, model.values.static_map)

C4_Witness ==
    /\ cls = "TransformModel"
    /\ model.ok
    /\ doc.static_map # None
    /\ \E i, j \in 1..Len(doc.static_map[1]) :
          /\ i # j
          /\ doc.static_map[1][i][1] # lower(doc.static_map[1][i][1])
          /\ lower(doc.static_map[1][i][1]) = lower(doc.static_map[1][j][1])
    /\ Len(model.values.static_map[1]) = 1

PathError == "A valid path must be provided."

\* C5: the path is checked at construction: an invalid path makes the
\* construction fail with the path error, a valid path raises no path error
\* (and a PathTransformModel with a valid path is constructed), and the path
\* a constructed model holds always compiles, so evaluation cannot meet a
\* path-syntax error.
C5_PathCheckedAtConstruction ==
    cls \in {"PathTransformModel", "MetadataTransformModel"}
    => /\ (doc.path # None /\ ~jmespath_compile(doc.path[1]))
            => (~model.ok /\ PathError \in model.errors)
       /\ (doc.path # None /\ jmespath_compile(doc.path[1]))
            => /\ PathError \notin model.errors
               /\ cls = "PathTransformModel" => model.ok
       /\ model.ok
            => /\ model.values.path = doc.path
               /\ model.values.path # None
                    => jmespath_compile(model.values.path[1])

C5_Witness ==
    /\ cls = "PathTransformModel"
    /\ doc.default = Some("d")
    /\ doc.path = Some(<<"a", ".", "*", ".">>)
    /\ ~model.ok
    /\ model.errors = {PathError}


-----------------------------------------------------------------------------
(* Properties of the collection processor (Spec) *)

Positions == 1..Len(ti_dicts)
Escalates(i) == ti_dicts[i].outcome \in {"TransformException", "Exception"}
Done == pc \in {"done_batch", "done_v3_api"}

\* the xids of the entries of a bucket of `batch`, in order
BucketXids(b) ==
    IF DictHas(batch, b)
    THEN [ j \in 1..Len(DictGet(batch, b)) |-> DictGet(DictGet(batch, b)[j], "xid") ]
    ELSE << >>
Occurrences(b, i) == Cardinality({ j \in 1..Len(BucketXids(b)) : BucketXids(b)[j] = i })
\* the association entries that refer to record i
AssociationsOf(i) ==
    IF DictHas(batch, "association")
    THEN { j \in 1..Len(DictGet(batch, "association")) :
             DictGet(DictGet(batch, "association")[j], "ref_2") = i }
    ELSE {}

C6_Absent ==
    \A i \in Positions :
        ti_dicts[i].outcome = "NoValidTransformException"
        => /\ Occurrences("group", i) = 0
           /\ Occurrences("indicator", i) = 0
           /\ AssociationsOf(i) = {}
           /\ ~(pc = "raised" /\ index = i)

C6_Step ==
    ( /\ pc \in {"batch", "v3_api"}
      /\ index <= Len(ti_dicts)
      /\ ti_dicts[index].outcome = "NoValidTransformException" )
    => /\ batch' = batch
       /\ v3_data' = v3_data
       /\ exc' = None
       /\ pc' = pc
       /\ index' = index + 1

\* C6: a record whose evaluation raises NoValidTransformException adds
\* nothing to the batch or v3 result and never stops the run: the loop goes
\* on with the next record, whatever raise_exceptions is.
C6_NoValidTransformSkipped == [] C6_Absent /\ [][C6_Step]_vars

C6_Witness ==
    /\ Done
    /\ raise_exceptions
    /\ \E i \in Positions :
          /\ ti_dicts[i].outcome = "NoValidTransformException"
          /\ i < Len(ti_dicts)
          /\ ti_dicts[i + 1].outcome = "ok"
          /\ evaluated = [ k \in Positions |-> k ]

\* C7: with raise_exceptions false no exception reaches the caller, and the
\* batch extraction returns a result that holds every record whose
\* evaluation succeeds and no record whose evaluation fails.
C7_FailuresIsolated ==
    ~raise_exceptions
    => /\ pc # "raised"
       /\ exc = None
       /\ pc = "done_batch"
            => \A i \in Positions :
                  Occurrences("group", i) + Occurrences("indicator", i)
                    = IF ti_dicts[i].outcome = "ok" THEN 1 ELSE 0

C7_Witness ==
    /\ pc = "done_batch"
    /\ ~raise_exceptions
    /\ Len(ti_dicts) = 3
    /\ ti_dicts[1].outcome = "TransformException"
    /\ ti_dicts[2].outcome = "Exception"
    /\ ti_dicts[3].outcome = "ok"
    /\ Occurrences("indicator", 3) = 1

\* C8: with raise_exceptions true the first record whose evaluation raises a
\* TransformException or an unexpected exception ends the extraction: the
\* exception reaches the caller, nothing is returned and no later record is
\* evaluated.
C8_FirstFailureAborts ==
    raise_exceptions
    => /\ \A k \in 1..Len(evaluated) :
             \A j \in 1..(evaluated[k] - 1) : ~Escalates(j)
       /\ Done => \A i \in Positions : ~Escalates(i)
       /\ \A i \in Positions :
             (Escalates(i) /\ \E k \in 1..Len(evaluated) : evaluated[k] = i)
             => /\ pc = "raised"
                /\ index = i
                /\ exc = Some(ti_dicts[i].outcome)
       /\ pc = "raised" => Escalates(index)

C8_Witness ==
    /\ pc = "raised"
    /\ raise_exceptions
    /\ Len(ti_dicts) = 3
    /\ index = 2
    /\ evaluated = <<1, 2>>
    /\ ti_dicts[1].outcome = "ok"

\* C9: in the batch result the transformed records of the group bucket and
\* of the indicator bucket (the entries with the xid of a raw record) stand
\* in the order of their raw records in the input.
C9_InputOrderKept ==
    pc \in {"batch", "done_batch"}
    => \A b \in {"group", "indicator"} :
          \A j, k \in 1..Len(BucketXids(b)) :
              (j < k /\ BucketXids(b)[j] > 0 /\ BucketXids(b)[k] > 0)
              => BucketXids(b)[j] < BucketXids(b)[k]

C9_Witness ==
    /\ pc = "done_batch"
    /\ Len(ti_dicts) = 3
    /\ ti_dicts[2].outcome # "ok"
    /\ \E j, k \in 1..Len(BucketXids("group")) :
          j < k /\ BucketXids("group")[j] = 1 /\ BucketXids("group")[k] = 3

\* C10: every record that is not skipped is in the batch result exactly
\* once: in the group bucket when its transform is a Group transform, in the
\* indicator bucket when it is an Indicator transform, never in both.
C10_OneBucketByKind ==
    pc = "done_batch"
    => \A i \in Positions :
          ti_dicts[i].outcome = "ok"
          => /\ Occurrences("group", i)
                  = IF ti_dicts[i].transform = "GroupTransformModel" THEN 1 ELSE 0
             /\ Occurrences("indicator", i)
                  = IF ti_dicts[i].transform = "IndicatorTransformModel" THEN 1 ELSE 0

C10_Witness ==
    /\ pc = "done_batch"
    /\ \E i, j \in Positions :
          /\ ti_dicts[i].outcome = "ok"
          /\ ti_dicts[j].outcome = "ok"
          /\ ti_dicts[i].transform = "GroupTransformModel"
          /\ ti_dicts[j].transform = "IndicatorTransformModel"
          /\ Occurrences("group", i) = 1
          /\ Occurrences("indicator", j) = 1


\* a payload is an entry of a bucket of `batch`
InBucket(b, payload) ==
    \E j \in 1..Len(DictGet(batch, b)) : DictGet(batch, b)[j] = payload
AdhocKept(i) ==
    /\ \A k \in 1..Len(transformed_collection[i].adhoc_groups) :
          InBucket("group", transformed_collection[i].adhoc_groups[k])
    /\ \A k \in 1..Len(transformed_collection[i].adhoc_indicators) :
          InBucket("indicator", transformed_collection[i].adhoc_indicators[k])

\* C11 as stated: every adhoc group and adhoc indicator payload appended
\* while any record of the run was processed is in the batch result, in the
\* group bucket and in the indicator bucket respectively.
C11_EveryAdhocKept ==
    pc = "done_batch" => \A i \in Positions : AdhocKept(i)

\* the positions of the non-skipped records of a type, in input order
OkOfType(type) ==
    SelectSeq([ i \in Positions |-> i ],
              LAMBDA i : ti_dicts[i].outcome = "ok"
                         /\ TypeName(ti_dicts[i].transform) = type)

\* C12: the v3 extraction maps each type name to the list of the v3 items
\* of that type: one element per non-skipped record of the type, its to_v3
\* mapping, in input order.
C12_V3OneItemPerRecord ==
    pc = "done_v3_api"
    => \A type \in {"Adversary", "Address"} :
          /\ DictHas(v3_data, type) <=> Len(OkOfType(type)) > 0
          /\ Len(GetOr(v3_data, type, << >>)) = Len(OkOfType(type))
          /\ \A k \in 1..Len(OkOfType(type)) :
                DictGet(v3_data, type)[k]
                  = DictDel(TiV3Api(transformed_collection[OkOfType(type)[k]]), "type")

RECURSIVE AssociationsUpTo(_)
\* the association entries of the non-skipped records 1..n, in input order
AssociationsUpTo(n) ==
    IF n = 0 THEN << >>
    ELSE AssociationsUpTo(n - 1)
         \o (IF ti_dicts[n].outcome = "ok"
             THEN GetOr(transformed_collection[n].transformed_item, "association", << >>)
             ELSE << >>)

\* C20: with seperate_batch_associations true the association bucket of the
\* batch result holds the association entries of all non-skipped records, in
\* input order, and no transformed record of the group or indicator bucket
\* has an association key; with it false the result has no association
\* bucket.
C20_AssociationBucket ==
    pc = "done_batch"
    => IF seperate_batch_associations
       THEN /\ GetOr(batch, "association", << >>) = AssociationsUpTo(Len(ti_dicts))
            /\ \A b \in {"group", "indicator"} :
                  \A j \in 1..Len(DictGet(batch, b)) :
                      ~DictHas(DictGet(batch, b)[j], "association")
       ELSE ~DictHas(batch, "association")

C20_Witness ==
    /\ pc = "done_batch"
    /\ seperate_batch_associations
    /\ Len(ti_dicts) = 3
    /\ ti_dicts[1].association = 1
    /\ ti_dicts[2].outcome # "ok"
    /\ ti_dicts[3].association = 1
    /\ Len(DictGet(batch, "association")) = 2
    /\ DictGet(DictGet(batch, "association")[1], "ref_2") = 1
    /\ DictGet(DictGet(batch, "association")[2], "ref_2") = 3

-----------------------------------------------------------------------------
(* Properties of one record's builder (SpecItem) *)

KeyRank(k) == CHOOSE i \in 1..Len(SortedKeyNames) : SortedKeyNames[i] = k

\* C13: to_batch returns exactly the keys and values of the transformed
\* item, in ascending order of the key names.
C13_BatchSortedSameContent ==
    stage = "batch"
    => /\ Len(result) = Len(ti.transformed_item)
       /\ \A i \in 1..Len(ti.transformed_item) :
             /\ DictHas(result, ti.transformed_item[i][1])
             /\ DictGet(result, ti.transformed_item[i][1]) = ti.transformed_item[i][2]
       /\ \A i, j \in 1..Len(result) :
             i < j => KeyRank(result[i][1]) < KeyRank(result[j][1])

C13_Witness ==
    /\ stage = "batch"
    /\ Len(result) = 5
    /\ result # ti.transformed_item
    /\ DictHas(result, "attribute")
    /\ DictHas(result, "confidence")

\* the list keys of a transformed item and the v3 keys that wrap them
ListKeys ==
    { <<"attribute", "attributes">>, <<"tag", "tags">>,
      <<"securityLabel", "securityLabels">>, <<"fileOccurrence", "fileOccurrences">> }

\* the data list of a wrapper of a v3 output, empty when there is none
V3Data(out, new) ==
    IF DictHas(out, new) THEN DictGet(DictGet(out, new), "data") ELSE << >>

\* a v3 entry has every value of the batch entry but the dropped ones, and
\* nothing else than the defaults of the keys the batch entry lacks
SameContent(b, v, dropped) ==
    /\ \A i \in 1..Len(b) :
          b[i][1] \notin dropped
          => DictHas(v, b[i][1]) /\ DictGet(v, b[i][1]) = b[i][2]
    /\ \A i \in 1..Len(v) :
          ~DictHas(b, v[i][1])
          => IF v[i][1] = "pinned" THEN v[i][2] = FALSE ELSE v[i][2] = "None"

\* C14: the attributes, tags, security labels and file occurrences of the
\* to_v3 output have as many entries as the lists of the to_batch output, in
\* the same order and with the same values; only the displayed sub-field of
\* attributes is dropped.
C14_V3KeepsListContent ==
    stage = "v3_api"
    => \A p \in ListKeys :
          LET b == GetOr(TiBatch(ti), p[1], << >>)
              v == V3Data(result, p[2])
          IN  /\ Len(v) = Len(b)
              /\ \A i \in 1..Len(b) :
                    SameContent(b[i], v[i],
                                IF p[1] = "attribute" THEN {"displayed"} ELSE {})

C14_Witness ==
    /\ stage = "v3_api"
    /\ Len(GetOr(ti.transformed_item, "attribute", << >>)) = 2
    /\ DictHas(DictGet(ti.transformed_item, "attribute")[1], "displayed")
    /\ DictGet(DictGet(ti.transformed_item, "attribute")[2], "value") = "v1"
    /\ Len(V3Data(result, "attributes")) = 2
    /\ DictGet(V3Data(result, "attributes")[1], "source") = "feed"

\* C15: to_v3 turns associatedGroupXid into associatedGroups.data with one
\* {xid: ...} entry for each group xid of the list, in order.
C15_OneEntryPerGroupXid ==
    stage = "v3_api" /\ DictHas(ti.transformed_item, "associatedGroupXid")
    => LET xids == DictGet(ti.transformed_item, "associatedGroupXid")
           data == V3Data(result, "associatedGroups")
       IN  /\ Len(data) = Len(xids)
           /\ \A i \in 1..Len(xids) : data[i] = << <<"xid", xids[i]>> >>

\* C16: the to_v3 output has a wrapper key only when its source key is in
\* the item, and a wrapper never has an empty data list; a key the item
\* itself holds under a wrapper's name is handed through as it is.
C16_NoEmptyWrapper ==
    stage = "v3_api"
    => \A p \in ListKeys \cup { <<"associatedGroupXid", "associatedGroups">> } :
          DictHas(result, p[2])
          => IF DictHas(ti.transformed_item, p[2])
             THEN /\ ~DictHas(ti.transformed_item, p[1])
                  /\ DictGet(result, p[2]) = DictGet(ti.transformed_item, p[2])
             ELSE /\ DictHas(ti.transformed_item, p[1])
                  /\ Len(V3Data(result, p[2])) > 0

C16_Witness ==
    /\ stage = "v3_api"
    /\ DictHas(ti.transformed_item, "tag")
    /\ ~DictHas(ti.transformed_item, "attribute")
    /\ Len(V3Data(result, "tags")) = 1
    /\ ~DictHas(result, "attributes")
    /\ ~DictHas(result, "associatedGroups")

\* the step is a call of add_associated_group with separate associations
IsAddAssociatedGroup ==
    /\ ti.seperate_batch_associations
    /\ Len(calls') = Len(calls) + 1
    /\ calls'[Len(calls')].op = "add_associated_group"

InlineKeys == {"associatedGroupXid", "associatedGroups", "associatedIndicators"}
NoInlineKey(item) == \A k \in InlineKeys : ~DictHas(item, k)
Associations(item) == GetOr(item, "association", << >>)

\* C18 as stated: with separate associations add_associated_group appends
\* an association entry with ref_1 = group_xid and ref_2 = the xid of the
\* record, on any record, and leaves the inline keys unset.
C18_RefsGroupXidAndXid ==
    [][ IsAddAssociatedGroup
        => /\ ti_exc' = None
           /\ Len(Associations(ti'.transformed_item))
                 = Len(Associations(ti.transformed_item)) + 1
           /\ LET e == Associations(ti'.transformed_item)
                          [Len(Associations(ti'.transformed_item))]
              IN  /\ DictGet(e, "ref_1") = calls'[Len(calls')].args[1]
                  /\ DictGet(e, "ref_2") = DictGet(ti.transformed_item, "xid")
           /\ NoInlineKey(ti'.transformed_item) ]_vars

\* the fields of the item add_associated_group reads for the record
RefKeys(transform) ==
    IF transform = "GroupTransformModel" THEN {"xid"} ELSE {"summary", "type"}

\* C18 amended: with separate associations add_associated_group(group_xid)
\* fails with a KeyError and appends nothing when the item does not hold
\* the xid of a Group record, or the summary and type of an Indicator
\* record, yet; otherwise it appends one association entry, {ref_1:
\* group_xid, ref_2: xid} for a Group record and {ref_1: group_xid, ref_2:
\* summary, type_2: type} for an Indicator record. It never sets an inline
\* key.
C18_RefsByKind ==
    [][ IsAddAssociatedGroup
        => LET before == Associations(ti.transformed_item)
               after == Associations(ti'.transformed_item)
               g == calls'[Len(calls')].args[1]
           IN  /\ NoInlineKey(ti'.transformed_item) = NoInlineKey(ti.transformed_item)
               /\ ~DictHas(ti'.transformed_item, "associatedGroupXid")
               /\ ~DictHas(ti'.transformed_item, "associatedGroups")
               /\ IF \E k \in RefKeys(ti.transform) : ~DictHas(ti.transformed_item, k)
                  THEN ti_exc' = Some("KeyError") /\ after = before
                  ELSE /\ ti_exc' = None
                       /\ after = Append(before,
                            IF ti.transform = "GroupTransformModel"
                            THEN << <<"ref_1", g>>,
                                    <<"ref_2", DictGet(ti.transformed_item, "xid")>> >>
                            ELSE << <<"ref_1", g>>,
                                    <<"ref_2", DictGet(ti.transformed_item, "summary")>>,
                                    <<"type_2", DictGet(ti.transformed_item, "type")>> >>) ]_vars

C18_Witness ==
    /\ ti.seperate_batch_associations
    /\ ti.transform = "IndicatorTransformModel"
    /\ stage = "building"
    /\ Len(calls) = 1
    /\ calls[1].op = "add_associated_group"
    /\ Associations(ti.transformed_item)
          = << << <<"ref_1", calls[1].args[1]>>, <<"ref_2", "1.1.1.1">>,
                  <<"type_2", "Address">> >> >>

\* C19: whatever helpers were called, the item holds one representation of
\* its associations: without separate associations never an association
\* list, with them never an inline key.
C19_OneRepresentation ==
    stage # "idle"
    => IF ti.seperate_batch_associations
       THEN NoInlineKey(ti.transformed_item)
       ELSE ~DictHas(ti.transformed_item, "association")

C19_Witness ==
    /\ stage = "building"
    /\ ti.seperate_batch_associations
    /\ Len(calls) = 2
    /\ calls[1].op = "add_associated_indicator"
    /\ calls[2].op = "add_associated_group"
    /\ Len(Associations(ti.transformed_item)) = 2

-----------------------------------------------------------------------------
(* Properties of a repeated extraction (SpecRerun) *)

C17_SameResult ==
    /\ pc = "done_batch" /\ previous # None => batch = previous[1]
    /\ pc = "done_v3_api" /\ previous # None => v3_data = previous[1]

\* a second call starts from builders that hold nothing of the first
C17_FreshBuilders ==
    (BatchAgain \/ V3ApiAgain)
    => \A i \in 1..Len(transformed_collection') :
          transformed_collection'[i]
             = TiTransformInit(ti_dicts[i], seperate_batch_associations)

-----------------------------------------------------------------------------
(* Further properties of one record's builder (SpecItem) *)

\* the step is a call of the helper op
IsCallOf(op) ==
    /\ Len(calls') = Len(calls) + 1
    /\ calls'[Len(calls')].op = op

\* C21: add_custom_association without separate associations fails with a
\* TransformException and leaves the item as it was; with them it appends
\* exactly one association entry.
C21_CustomAssociation ==
    [][ IsCallOf("add_custom_association")
        => IF ~ti.seperate_batch_associations
           THEN /\ ti_exc' = Some("TransformException")
                /\ ti'.transformed_item = ti.transformed_item
           ELSE /\ ti_exc' = None
                /\ Len(Associations(ti'.transformed_item))
                      = Len(Associations(ti.transformed_item)) + 1 ]_vars

\* C25: add_attribute with a type and a value appends one attribute whose
\* pinned key is present, and true, exactly when pinned=True was passed and
\* whose displayed key is present, and true, exactly when displayed=True
\* was passed.
C25_PinnedAndDisplayed ==
    [][ IsCallOf("add_attribute")
        => LET a == calls'[Len(calls')].args[1]
               before == GetOr(ti.transformed_item, "attribute", << >>)
               after == GetOr(ti'.transformed_item, "attribute", << >>)
           IN  /\ Len(after) = Len(before) + 1
               /\ DictHas(after[Len(after)], "pinned") = a.pinned
               /\ DictHas(after[Len(after)], "displayed") = a.displayed
               /\ a.pinned => DictGet(after[Len(after)], "pinned") = TRUE
               /\ a.displayed => DictGet(after[Len(after)], "displayed") = TRUE ]_vars

AssociationOps ==
    {"add_associated_group", "add_associated_indicator", "add_custom_association"}

\* C26: with separate associations the three association helpers complete
\* without error whatever the item holds so far, for Group records and
\* Indicator records.
C26_AssociationHelpersComplete ==
    [][ (ti.seperate_batch_associations /\ \E op \in AssociationOps : IsCallOf(op))
        => ti_exc' = None /\ stage' = "building" ]_vars

-----------------------------------------------------------------------------
(* Further properties of the collection processor (Spec) *)

\* the log events written for skipped records
SkipEvents == Len(SelectSeq(log, LAMBDA e : e \in {"warning", "exception"}))

\* the number of records in the result of the extraction that returned
ResultRecords ==
    IF pc = "done_batch"
    THEN Cardinality({ <<b, j>> \in {"group", "indicator"} \X (1..(2 * Len(ti_dicts))) :
                         j <= Len(BucketXids(b)) /\ BucketXids(b)[j] > 0 })
    ELSE Len(GetOr(v3_data, "Adversary", << >>)) + Len(GetOr(v3_data, "Address", << >>))

\* C23: when an extraction completes, the skipped records have produced one
\* log event each and the others none: the number of skip log events is the
\* number of input records minus the number of transformed records in the
\* result.
C23_OneLogEventPerSkip ==
    Done
    => /\ SkipEvents = Cardinality({ i \in Positions : ti_dicts[i].outcome # "ok" })
       /\ SkipEvents = Len(ti_dicts) - ResultRecords

RECURSIVE FromRecords(_, _)
\* the number of elements the records 1..n themselves add to the list of a
\* type of the v3 result
FromRecords(type, n) ==
    IF n = 0 THEN 0
    ELSE FromRecords(type, n - 1)
         + (IF ti_dicts[n].outcome = "ok"
            THEN Len(GetOr(V3Collect(<< >>, TiV3Api(transformed_collection[n])),
                           type, << >>))
            ELSE 0)

\* the adhoc payloads of a type the non-skipped records added
AdhocOfType(type) ==
    Cardinality({ i \in Positions :
        /\ ti_dicts[i].outcome = "ok"
        /\ IF type = "Adversary" THEN ti_dicts[i].adhoc_groups > 0
           ELSE ti_dicts[i].adhoc_indicators > 0 })

\* C24: the adhoc groups and indicators the records of a run added are in
\* the result of the extraction: in its bucket of the batch result, and in
\* the v3 result as one more element of the list of the payload's type,
\* next to what the records themselves add.
C24_AdhocInEitherResult ==
    /\ pc = "done_batch"
       => \A i \in Positions : ti_dicts[i].outcome = "ok" => AdhocKept(i)
    /\ pc = "done_v3_api"
       => \A type \in {"Adversary", "Address"} :
             Len(GetOr(v3_data, type, << >>))
                = FromRecords(type, Len(ti_dicts)) + AdhocOfType(type)

-----------------------------------------------------------------------------
(* Properties of the helpers under any arguments (SpecHelpers) *)

\* the keys of an item that hold one string
StringKeys == {"type", "xid", "name", "summary", "description"}
\* the keys of an item that hold a list of mappings
EntryListKeys ==
    {"attribute", "tag", "securityLabel", "fileOccurrence", "associatedGroups",
     "associatedIndicators", "association"}
\* the sub-fields of an entry that hold a flag
FlagKeys == {"pinned", "displayed"}

NoNullIn(item) ==
    \A i \in 1..Len(item) :
        /\ item[i][1] \in StringKeys => item[i][2] # PyNone
        /\ item[i][1] = "associatedGroupXid"
           => \A j \in 1..Len(item[i][2]) : item[i][2][j] # PyNone
        /\ item[i][1] \in EntryListKeys
           => \A j \in 1..Len(item[i][2]) :
                 \A k \in 1..Len(item[i][2][j]) :
                     item[i][2][j][k][1] \notin FlagKeys => item[i][2][j][k][2] # PyNone

\* the call has a null key or value among its arguments
NullCall(c) ==
    CASE c.op = "add_associated_group" -> c.args[1] = PyNone
      [] c.op = "add_associated_indicator" -> c.args[1] = PyNone
      [] c.op = "add_custom_association" -> c.args[3] = PyNone
      [] c.op = "add_attribute" -> c.args[1].type_ = None \/ c.args[1].value = None
      [] c.op = "add_metadata" -> c.args[1] = None \/ c.args[2] = None
      [] OTHER -> c.args[1] = None

\* C22: whatever helpers are called with whatever arguments, the item never
\* holds a null, neither as a value of its own nor inside an entry of one
\* of its lists, and a call with a null key or value leaves the item as it
\* was.
C22_NoNullStored ==
    /\ [] (stage # "idle" => NoNullIn(ti.transformed_item))
    /\ [][ (Len(calls') = Len(calls) + 1 /\ NullCall(calls'[Len(calls')]))
           => ti'.transformed_item = ti.transformed_item ]_vars

-----------------------------------------------------------------------------
(* ObjectCollectionABC.iterate: pagination (SpecIterate) *)

\* urls: the endpoint of the collection is 1, the page after it 2, ...; 0 is
\* the empty string
ApiEndpoint == 1
EmptyUrl == 0

\* the objects of page i: the entries of `data` of its response
ItemsOf(i, count) == [ j \in 1..count |-> <<i, j>> ]

\* the responses the API may give for page i of n: a failure, or a page of
\* objects with or without a next url
PageResponses(i, n) ==
    { [ok |-> FALSE, data |-> << >>, next |-> None] }
    \cup { [ok |-> TRUE, data |-> ItemsOf(i, count), next |-> next] :
             count \in 0..MaxPageItems,
             next \in {None, Some(EmptyUrl)}
                      \cup (IF i < n THEN {Some(i + 1)} ELSE {}) }

RECURSIVE ServersUpTo(_, _)
ServersUpTo(k, n) ==
    IF k = 0 THEN { << >> }
    ELSE { Append(server, r) : server \in ServersUpTo(k - 1, n), r \in PageResponses(k, n) }

Servers == UNION { ServersUpTo(n, n) : n \in 1..MaxPages }

\* the collections iterated: type_, the keys of params, the TQL string
IterateConfigs ==
    { [type_ |-> "Groups", params |-> {}, tql |-> ""],
      [type_ |-> "Groups", params |-> {"owner"}, tql |-> "summary"],
      [type_ |-> "Indicators", params |-> {"result_limit"}, tql |-> ""] }

\* Util.snake_to_camel
snake_to_camel(k) == IF k = "result_limit" THEN "resultLimit" ELSE k

\* the keys of `params` when the loop is entered
InitialParams(conf) ==
    LET p1 == IF conf.type_ = "Indicators" THEN conf.params \cup {"fields"}
              ELSE conf.params
        p2 == p1 \cup { snake_to_camel(k) : k \in p1 }
    IN  IF conf.tql # "" THEN p2 \cup {"tql"} ELSE p2

\* the truth value of `url`
TruthyUrl(url) == url # None /\ url[1] # EmptyUrl

ResetParams_keeps(params) == params

\* `params = {}` after a request
ResetParams(params) == {}

IterInit ==
    /\ it_server \in Servers
    /\ it_conf \in IterateConfigs
    /\ it_pc = "idle"
    /\ it_url = None
    /\ it_params = {}
    /\ it_requests = << >>
    /\ it_yielded = << >>
    /\ it_data = << >>

\* iterate() up to the loop
IterateCall ==
    /\ it_pc = "idle"
    /\ it_url' = Some(ApiEndpoint)
    /\ it_params' = InitialParams(it_conf)
    /\ it_pc' = "request"
    /\ UNCHANGED <<it_server, it_conf, it_requests, it_yielded, it_data>>
    /\ UNCHANGED <<cfgvars, runvars, itemvars, svcvars, pbvars>>

\* self._request(...) and the reading of the response
IterateRequest ==
    /\ it_pc = "request"
    /\ it_requests' = Append(it_requests, [url |-> it_url[1], params |-> it_params])
    /\ LET response == it_server[it_url[1]] IN
       IF ~response.ok
       THEN /\ it_pc' = "raised"
            /\ UNCHANGED <<it_url, it_params, it_data>>
       ELSE /\ it_params' = ResetParams(it_params)
            /\ it_data' = response.data
            /\ it_url' = response.next
            /\ it_pc' = "yield"
    /\ UNCHANGED <<it_server, it_conf, it_yielded>>
    /\ UNCHANGED <<cfgvars, runvars, itemvars, svcvars, pbvars>>

\* `yield base_class(...)` for the next result of the page
IterateYield ==
    /\ it_pc = "yield"
    /\ it_data # << >>
    /\ it_yielded' = Append(it_yielded, Head(it_data))
    /\ it_data' = Tail(it_data)
    /\ UNCHANGED <<it_server, it_conf, it_pc, it_url, it_params, it_requests>>
    /\ UNCHANGED <<cfgvars, runvars, itemvars, svcvars, pbvars>>

\* the end of the page: `if not url: break`
IteratePageEnd ==
    /\ it_pc = "yield"
    /\ it_data = << >>
    /\ it_pc' = IF ~TruthyUrl(it_url) THEN "done" ELSE "request"
    /\ UNCHANGED <<it_server, it_conf, it_url, it_params, it_requests, it_yielded,
                   it_data>>
    /\ UNCHANGED <<cfgvars, runvars, itemvars, svcvars, pbvars>>

IterateInit == ConfigIdle /\ RunIdle /\ ItemIdle /\ IterInit /\ SvcIdle /\ PbIdle

IterateNext ==
    \/ IterateCall
    \/ IterateRequest
    \/ IterateYield
    \/ IteratePageEnd

SpecIterate == IterateInit /\ [][IterateNext]_vars

-----------------------------------------------------------------------------
(* Properties of the pagination (SpecIterate) *)

\* the response to the k-th request
Fetched(k) == it_server[it_requests[k].url]

RECURSIVE FetchedItems(_)
\* the objects of the pages the first k requests fetched, in page order
FetchedItems(k) ==
    IF k = 0 THEN << >> ELSE FetchedItems(k - 1) \o Fetched(k).data

\* C27: iterate yields the objects of the fetched pages once each, in page
\* order; the first request goes to the endpoint with the query parameters,
\* every later one to the next url of the response before it and without
\* parameters; and the iteration ends right after the first page whose
\* response has no next url.
C27_Pagination ==
    /\ \A k \in 1..Len(it_requests) :
          IF k = 1
          THEN /\ it_requests[k].url = ApiEndpoint
               /\ it_requests[k].params = InitialParams(it_conf)
          ELSE /\ Fetched(k - 1).ok
               /\ TruthyUrl(Fetched(k - 1).next)
               /\ it_requests[k].url = Fetched(k - 1).next[1]
               /\ it_requests[k].params = {}
    /\ it_yielded \o it_data = FetchedItems(Len(it_requests))
    /\ it_pc = "done"
       => /\ ~TruthyUrl(Fetched(Len(it_requests)).next)
          /\ it_data = << >>
    /\ (it_pc = "request" /\ it_requests # << >>)
       => TruthyUrl(Fetched(Len(it_requests)).next)

C27_Witness ==
    /\ it_pc = "done"
    /\ Len(it_requests) = 2
    /\ it_requests[1].params = {"result_limit", "resultLimit", "fields"}
    /\ it_yielded = << <<1, 1>>, <<1, 2>>, <<2, 1>> >>
    /\ Fetched(2).next = Some(EmptyUrl)

-----------------------------------------------------------------------------
(* ApiService.run_service and its response-handler thread (SpecService) *)

\* the RunService messages: which fields the message has, and whether an
\* api_event_callback is configured
Messages ==
    [bodyVariable : BOOLEAN, headers : BOOLEAN, method : BOOLEAN,
     api_event_callback : BOOLEAN]

\* ApiService.increment_metric
increment_metric(metrics, key) == DictSet(metrics, key, DictGet(metrics, key) + 1)

SvcInit ==
    /\ svc_message \in Messages
    /\ svc_pc = "idle"
    /\ svc_token = FALSE
    /\ svc_event = FALSE
    /\ svc_redis = {}
    /\ svc_handler = "none"
    /\ svc_published = << >>
    /\ svc_metrics = << <<"Errors", 0>>, <<"Requests", 0>>, <<"Responses", 0>> >>

\* register_token(...) and event = threading.Event()
RegisterToken ==
    /\ svc_pc = "idle"
    /\ svc_token' = TRUE
    /\ svc_pc' = "read_body"
    /\ UNCHANGED <<svc_message, svc_event, svc_redis, svc_handler, svc_published,
                   svc_metrics>>
    /\ UNCHANGED <<cfgvars, runvars, itemvars, itervars, pbvars>>

\* the body is read from Redis; a failure is logged and body stays None
ReadBody ==
    /\ svc_pc = "read_body"
    /\ \E failed \in BOOLEAN : failed => svc_message.bodyVariable
    /\ svc_pc' = "format_headers"
    /\ UNCHANGED <<svc_message, svc_token, svc_event, svc_redis, svc_handler,
                   svc_published, svc_metrics>>
    /\ UNCHANGED <<cfgvars, runvars, itemvars, itervars, pbvars>>

\* format_request_headers(message.get('headers')): iterating None raises
\* TypeError, which the `except AttributeError` does not catch
FormatRequestHeaders ==
    /\ svc_pc = "format_headers"
    /\ svc_pc' = IF svc_message.headers THEN "environ" ELSE "raised"
    /\ UNCHANGED <<svc_message, svc_token, svc_event, svc_redis, svc_handler,
                   svc_published, svc_metrics>>
    /\ UNCHANGED <<cfgvars, runvars, itemvars, itervars, pbvars>>

\* the WSGI environ is built; method.upper() fails on a message without
\* method: the except branch counts an error and returns
BuildEnviron ==
    /\ svc_pc = "environ"
    /\ IF svc_message.method
       THEN /\ svc_metrics' = increment_metric(svc_metrics, "Requests")
            /\ svc_pc' = IF svc_message.api_event_callback THEN "callback"
                         ELSE "unregister"
       ELSE /\ svc_metrics' = increment_metric(svc_metrics, "Errors")
            /\ svc_pc' = "returned"
    /\ UNCHANGED <<svc_message, svc_token, svc_event, svc_redis, svc_handler,
                   svc_published>>
    /\ UNCHANGED <<cfgvars, runvars, itemvars, itervars, pbvars>>

\* the callback calls response_handler: the response-handler thread starts
CallbackStartsResponse ==
    /\ svc_pc = "callback"
    /\ svc_handler = "none"
    /\ svc_handler' = "waiting"
    /\ UNCHANGED <<svc_message, svc_pc, svc_token, svc_event, svc_redis, svc_published,
                   svc_metrics>>
    /\ UNCHANGED <<cfgvars, runvars, itemvars, itervars, pbvars>>

\* the callback returns the body, or raises
CallbackEnds ==
    /\ svc_pc = "callback"
    /\ \E raised \in BOOLEAN :
          IF raised
          THEN /\ svc_metrics' = increment_metric(svc_metrics, "Errors")
               /\ svc_pc' = "unregister"
          ELSE /\ svc_pc' = "write_body"
               /\ UNCHANGED svc_metrics
    /\ UNCHANGED <<svc_message, svc_token, svc_event, svc_redis, svc_handler,
                   svc_published>>
    /\ UNCHANGED <<cfgvars, runvars, itemvars, itervars, pbvars>>

\* the body is encoded and written to Redis, unless that raises
WriteBody ==
    /\ svc_pc = "write_body"
    /\ \E raised \in BOOLEAN :
          IF raised
          THEN /\ svc_metrics' = increment_metric(svc_metrics, "Errors")
               /\ svc_pc' = "unregister"
               /\ UNCHANGED svc_redis
          ELSE /\ svc_redis' = svc_redis \cup {"response.body"}
               /\ svc_pc' = "set_event"
               /\ UNCHANGED svc_metrics
    /\ UNCHANGED <<svc_message, svc_token, svc_event, svc_handler, svc_published>>
    /\ UNCHANGED <<cfgvars, runvars, itemvars, itervars, pbvars>>

\* event.set()
SetEvent ==
    /\ svc_pc = "set_event"
    /\ svc_event' = TRUE
    /\ svc_pc' = "unregister"
    /\ UNCHANGED <<svc_message, svc_token, svc_redis, svc_handler, svc_published,
                   svc_metrics>>
    /\ UNCHANGED <<cfgvars, runvars, itemvars, itervars, pbvars>>

\* unregister_token(...), the last statement of run_service
UnregisterToken ==
    /\ svc_pc = "unregister"
    /\ svc_token' = FALSE
    /\ svc_pc' = "returned"
    /\ UNCHANGED <<svc_message, svc_event, svc_redis, svc_handler, svc_published,
                   svc_metrics>>
    /\ UNCHANGED <<cfgvars, runvars, itemvars, itervars, pbvars>>

\* event.wait(10) returns because the event is set
HandlerWakes ==
    /\ svc_handler = "waiting"
    /\ svc_event
    /\ svc_handler' = "awake"
    /\ UNCHANGED <<svc_message, svc_pc, svc_token, svc_event, svc_redis, svc_published,
                   svc_metrics>>
    /\ UNCHANGED <<cfgvars, runvars, itemvars, itervars, pbvars>>

\* event.wait(10) returns because the ten seconds are over
HandlerTimesOut ==
    /\ svc_handler = "waiting"
    /\ ~svc_event
    /\ svc_handler' = "awake"
    /\ UNCHANGED <<svc_message, svc_pc, svc_token, svc_event, svc_redis, svc_published,
                   svc_metrics>>
    /\ UNCHANGED <<cfgvars, runvars, itemvars, itervars, pbvars>>

\* the Acknowledged response is built and published, unless that raises
HandlerPublishes ==
    /\ svc_handler = "awake"
    /\ svc_handler' = "done"
    /\ \E raised \in BOOLEAN :
          IF raised
          THEN /\ svc_metrics' = increment_metric(svc_metrics, "Errors")
               /\ UNCHANGED svc_published
          ELSE /\ svc_published' = Append(svc_published, "Acknowledged")
               /\ svc_metrics' = increment_metric(svc_metrics, "Responses")
    /\ UNCHANGED <<svc_message, svc_pc, svc_token, svc_event, svc_redis>>
    /\ UNCHANGED <<cfgvars, runvars, itemvars, itervars, pbvars>>

ServiceInit == ConfigIdle /\ RunIdle /\ ItemIdle /\ IterIdle /\ SvcInit /\ PbIdle

ServiceNext ==
    \/ RegisterToken
    \/ ReadBody
    \/ FormatRequestHeaders
    \/ BuildEnviron
    \/ CallbackStartsResponse
    \/ CallbackEnds
    \/ WriteBody
    \/ SetEvent
    \/ UnregisterToken
    \/ HandlerWakes
    \/ HandlerTimesOut
    \/ HandlerPublishes

SpecService == ServiceInit /\ [][ServiceNext]_vars

-----------------------------------------------------------------------------
(* Properties of the API service (SpecService) *)

\* C28: a run_service that registered the API token has unregistered it
\* when it returns, on every path, also when reading the body, building the
\* environ or the callback failed.
C28_TokenUnregistered ==
    svc_pc = "returned" => ~svc_token

\* C29: the response-handler thread publishes the Acknowledged response of
\* a request only after run_service has written the response body of the
\* request to Redis, in every interleaving of the two threads.
C29_AcknowledgedAfterBody ==
    svc_published # << >> => "response.body" \in svc_redis

-----------------------------------------------------------------------------
(* PlaybookCreate: the write methods (SpecPlaybook) *)

\* the write methods with the variable type each one is for
WriteMethods ==
    {"binary", "binary_array", "key_value", "key_value_array", "string",
     "string_array", "tc_entity", "tc_entity_array", "tc_enhanced_entity_array"}

OwnType(method) ==
    CASE method = "binary" -> "Binary"
      [] method = "binary_array" -> "BinaryArray"
      [] method = "key_value" -> "KeyValue"
      [] method = "key_value_array" -> "KeyValueArray"
      [] method = "string" -> "String"
      [] method = "string_array" -> "StringArray"
      [] method = "tc_entity" -> "TCEntity"
      [] method = "tc_entity_array" -> "TCEntityArray"
      [] method = "tc_enhanced_entity_array" -> "TCEnhancedEntityArray"

\* the variable_type each method hands to _get_variable
LookupType(method) ==
    CASE method = "string_array" -> "String"
      [] method = "tc_enhanced_entity_array" -> "TCEntityArray"
      [] OTHER -> OwnType(method)

\* what each method hands to _check_variable_type: the variable found, or
\* the key as the caller gave it
ChecksVariable(method) == method = "binary"

\* a full variable #App:1234:<key>!<type>, and a key in short form
FullVariable(key, type) == [full |-> TRUE, key |-> key, type |-> type]
ShortKey(key) == [full |-> FALSE, key |-> key, type |-> ""]

\* the output variables a downstream app may request
OutputVariables ==
    { FullVariable("app.output", OwnType(method)) : method \in WriteMethods }
    \cup { FullVariable("app.other", "String") }

\* Utils.is_playbook_variable
is_playbook_variable(key) == key.full

\* Utils.get_playbook_variable_model: the parts of a full variable, None for
\* anything else
get_playbook_variable_model(variable) ==
    IF variable # None /\ variable[1].full
    THEN Some([key |-> variable[1].key, type |-> variable[1].type])
    ELSE None

\* PlaybookCreate._get_variable: the first requested variable with the key
\* and type, for a key in short form
get_variable(output_variables, key, variable_type) ==
    IF ~is_playbook_variable(key)
    THEN LET matches == { i \in 1..Len(output_variables) :
                            LET variable_model ==
                                    get_playbook_variable_model(Some(output_variables[i]))[1]
                            IN  /\ variable_model.key = key.key
                                /\ variable_model.type = variable_type }
         IN  IF matches = {} THEN None
             ELSE Some(output_variables[CHOOSE i \in matches : \A j \in matches : i <= j])
    ELSE Some(key)

\* PlaybookCreate.is_requested
is_requested(output_variables, variable) ==
    variable # None /\ \E i \in 1..Len(output_variables) : output_variables[i] = variable[1]

\* PlaybookCreate._check_requested
check_requested(output_variables, variable, when_requested) ==
    ~(when_requested /\ ~is_requested(output_variables, variable))

\* PlaybookCreate._check_variable_type: the exception it raises, if any
check_variable_type(variable, type_) ==
    IF get_playbook_variable_model(variable) = None THEN Some("AttributeError")
    ELSE IF get_playbook_variable_model(variable)[1].type # type_
    THEN Some("RuntimeError")
    ELSE None

\* PlaybookCreate._create_data as the write methods call it: the record is
\* created under `key`
create_data(store, variable, key, value) ==
    Append(store, [name |-> key, value |-> value])

\* a write method: the store after the call and the exception raised
Write(method, store, output_variables, key, value, when_requested) ==
    LET variable == get_variable(output_variables, key, LookupType(method))
        checked == check_variable_type(
                       IF ChecksVariable(method) THEN variable ELSE Some(key),
                       OwnType(method))
    IN  IF value = None THEN [store |-> store, raised |-> None]
        ELSE IF ~check_requested(output_variables, variable, when_requested)
        THEN [store |-> store, raised |-> None]
        ELSE IF checked # None THEN [store |-> store, raised |-> checked]
        ELSE [store |-> create_data(store, variable, key, value[1]), raised |-> None]

PbInit ==
    /\ pb_output_variables \in SeqsUpTo(OutputVariables, MaxOutputVariables)
    /\ pb_store = << >>
    /\ pb_call = << >>
    /\ pb_pc = "idle"
    /\ pb_exc = None

\* the App calls one of the write methods
CallWrite ==
    /\ pb_pc = "idle"
    /\ \E method \in WriteMethods, full \in BOOLEAN, value \in {None, Some("v")},
          when_requested \in BOOLEAN :
          LET key == IF full THEN FullVariable("app.output", OwnType(method))
                     ELSE ShortKey("app.output")
              w == Write(method, pb_store, pb_output_variables, key, value,
                         when_requested)
          IN  /\ pb_call' = [method |-> method, key |-> key, value |-> value,
                             when_requested |-> when_requested]
              /\ pb_store' = w.store
              /\ pb_exc' = w.raised
              /\ pb_pc' = IF w.raised = None THEN "returned" ELSE "raised"
    /\ UNCHANGED pb_output_variables
    /\ UNCHANGED <<cfgvars, runvars, itemvars, itervars, svcvars>>

PlaybookInit == ConfigIdle /\ RunIdle /\ ItemIdle /\ IterIdle /\ SvcIdle /\ PbInit

PlaybookNext == CallWrite

SpecPlaybook == PlaybookInit /\ [][PlaybookNext]_vars

-----------------------------------------------------------------------------
(* Properties of the playbook writes (SpecPlaybook) *)

\* the requested variable of the method's own type with the key of the call
OwnVariable == FullVariable(pb_call.key.key, OwnType(pb_call.method))
Requested(variable) ==
    \E i \in 1..Len(pb_output_variables) : pb_output_variables[i] = variable

\* C30: a write method called with a value and a key in short form that
\* matches a requested variable of the method's own type creates the value
\* under the full variable name; and a call for a variable that was not
\* requested, with when_requested true, creates nothing.
C30_WrittenUnderFullName ==
    pb_pc # "idle"
    => /\ (pb_call.value # None /\ ~pb_call.key.full /\ Requested(OwnVariable))
          => /\ pb_pc = "returned"
             /\ pb_store = << [name |-> OwnVariable, value |-> pb_call.value[1]] >>
       /\ (pb_call.when_requested /\ ~Requested(OwnVariable)
           /\ (pb_call.key.full \/ ~Requested(
                   FullVariable(pb_call.key.key, LookupType(pb_call.method)))))
          => pb_store = << >>

=============================================================================
